---- MODULE Spec2Model ----
(***************************************************************************)
(* Model of the streaming Apple Health XML parser (src/js/parser.worker.js) *)
(* : the worker's message handler, the chunked stream driver, the record    *)
(* and workout extractors and the correlator.                               *)
(*                                                                          *)
(* Text is a sequence of characters.  The long literals of the source are   *)
(* abbreviated to short character sequences of length >= 2, so that a chunk *)
(* boundary can still fall inside them:                                     *)
(*   "<"                         the '<' that opens any tag                 *)
(*   "w","r"   workoutActivityType="HKWorkoutActivityTypeRunning"           *)
(*   "t","h"   type="HKQuantityTypeIdentifierHeartRate"                     *)
(*   "t","s"   type="HKQuantityTypeIdentifierStepCount"                     *)
(*   "/",">"   the self-closing terminator                                  *)
(*   "<","/","W",">"   </Workout>        "<","/","R",">"   </Record>        *)
(*   "S" "E" "D" "V"   startDate="  endDate="  duration="  value="          *)
(*   "e"               <WorkoutEvent type="..." date="                      *)
(*   "e"               <WorkoutEvent type="..." date="                      *)
(*   "T" "U"           totalDistance="  totalDistanceUnit="                 *)
(*   "<","c"           <WorkoutStatistics                                   *)
(*   "<","/","C",">"   </WorkoutStatistics>                                 *)
(*   "Y" "A" "Q" "O" "u"   type="  sum="  quantity="  total="  unit="       *)
(*   "d"               inside a type attribute: text that holds 'Distance'  *)
(*   "d"               inside a type attribute: text that holds 'Distance'  *)
(*   "a" "b"           average="  avg="                                     *)
(*   "n" "j"           minimum="  min="                                     *)
(*   "X" "z"           maximum="  max="                                     *)
(* A marker "t","h" or "t","s" is itself a type attribute, whose value      *)
(* holds 'HeartRate' or 'StepCount'.                                        *)
(*   "k" "m" "i" "K" "M" "I"   the letters of the units km, m and mi        *)
(*   "q"               the closing double quote of an attribute value       *)
(*   "0".."9"          inside a date attribute: a whole health date         *)
(*                     'YYYY-MM-DD HH:MM:SS +HHMM' of that instant; inside  *)
(*                     a numeric attribute: that decimal digit              *)
(*   "x"               text that is neither a date nor a number             *)
(*   "."               any other text                                       *)
(* Offsets are 0-based as in the source; index -1 means "not found".        *)
(***************************************************************************)
EXTENDS Integers, Sequences, FiniteSets, TLC

\* JavaScript null / undefined (a missing attribute, an unset field).
Null == -2

\* JavaScript NaN: the time value of an Invalid Date, parseFloat of non-numeric text.
NaN == -1

\* attr()'s null result, kept apart from every attribute value ("" included).
AttrNull == <<"null">>

RunningMarker == <<"w", "r">>

HeartRateMarker == <<"t", "h">>

StepMarker == <<"t", "s">>

SelfClose == <<"/", ">">>

CloseWorkout == <<"<", "/", "W", ">">>

CloseRecord == <<"<", "/", "R", ">">>

Quote == "q"

Digits == {"0", "1", "2", "3", "4", "5", "6", "7", "8", "9"}

DigitVal(c) ==
  CASE c = "0" -> 0 [] c = "1" -> 1 [] c = "2" -> 2 [] c = "3" -> 3 [] c = "4" -> 4
    [] c = "5" -> 5 [] c = "6" -> 6 [] c = "7" -> 7 [] c = "8" -> 8 [] c = "9" -> 9

\* The tail kept by processBuffer when no marker is left (300 characters in the
\* source, scaled with the literals above: longer than one short element, shorter
\* than a long one).
TailLen == 14

Max(a, b) == IF a >= b THEN a ELSE b

Min(a, b) == IF a <= b THEN a ELSE b

\* String.prototype.substring(a, b) with 0 <= a, and b clamped to the length.
Substring(text, a, b) == SubSeq(text, a + 1, Min(b, Len(text)))

\* String.prototype.substring(a)
SubstringFrom(text, a) == SubSeq(text, a + 1, Len(text))

MatchAt(text, pat, i) ==
  /\ i >= 0
  /\ i + Len(pat) <= Len(text)
  /\ \A k \in 1..Len(pat) : text[i + k] = pat[k]

\* The least (greatest) of a set of offsets, -1 for the empty set.
LeastOf(hits) == IF hits = {} THEN -1 ELSE CHOOSE i \in hits : \A j \in hits : i <= j

GreatestOf(hits) == IF hits = {} THEN -1 ELSE CHOOSE i \in hits : \A j \in hits : i >= j

\* String.prototype.indexOf(pat, from): the least index >= from where pat occurs, or -1.
IndexOf(text, pat, from) ==
  LeastOf({i \in from..(Len(text) - Len(pat)) : MatchAt(text, pat, i)})

\* String.prototype.lastIndexOf(pat, upto): the greatest index <= upto, or -1.
LastIndexOf(text, pat, upto) ==
  GreatestOf({i \in 0..Min(upto, Len(text) - Len(pat)) : MatchAt(text, pat, i)})

\* The text between offset i and the closing quote at offset j; null when either
\* is missing.
QuotedFrom(text, i, j) == IF i = -1 \/ j = -1 THEN AttrNull ELSE Substring(text, i + 1, j)

\* The value that starts right after offset i and runs up to the nearest quote.
ValueAfter(text, i) ==
  QuotedFrom(text, i, IF i = -1 THEN -1 ELSE IndexOf(text, <<Quote>>, i + 1))

\* attr(text, name): the regular expression name="([^"]*)" matches at the first
\* occurrence of name=" that is followed by a closing quote; the value runs up to
\* the nearest quote.  No quote after the first occurrence: no occurrence matches.
attr(text, name) == ValueAfter(text, IndexOf(text, <<name>>, 0))

RECURSIVE DigitRun(_, _)
\* The decimal number spelled by the leading digits of v, after acc.
DigitRun(v, acc) ==
  IF v = <<>> \/ Head(v) \notin Digits THEN acc
  ELSE DigitRun(Tail(v), 10 * acc + DigitVal(Head(v)))

\* parseFloat(v): the number spelled by the leading digits, NaN when there is none.
parseFloat(v) ==
  IF v = <<>> \/ Head(v) \notin Digits THEN NaN ELSE DigitRun(v, 0)

\* v !== null ? parseFloat(v) : null
FloatOf(v) == IF v # AttrNull THEN parseFloat(v) ELSE Null

\* attrFloat(text, name)
attrFloat(text, name) == FloatOf(attr(text, name))

\* The instant of the health date at the first of the offsets `hits` of str; an
\* Invalid Date (time value NaN) when there is none.
DateAt(str, hits) == IF hits = {} THEN NaN ELSE DigitVal(str[LeastOf(hits)])

\* parseHealthDate(str): null for a missing or empty string; the instant of the
\* first health date found in the string (the pattern is not anchored); otherwise
\* new Date(str), which is an Invalid Date (time value NaN) for the model's texts.
parseHealthDate(str) ==
  IF str = AttrNull \/ str = <<>> THEN Null
  ELSE DateAt(str, {i \in 1..Len(str) : str[i] \in Digits})

RECURSIVE WorkoutEvents(_, _)
RECURSIVE EventsAfter(_, _, _)
\* The event whose date value runs from offset i to the quote at offset j, and
\* the events after it.
EventsAfter(xml, i, j) ==
  IF i = -1 \/ j = -1 THEN <<>>
  ELSE <<[type |-> "event", date |-> parseHealthDate(Substring(xml, i + 1, j))]>>
         \o WorkoutEvents(xml, j + 1)

EventsAt(xml, i) == EventsAfter(xml, i, IF i = -1 THEN -1 ELSE IndexOf(xml, <<Quote>>, i + 1))

\* The eventRegex loop of processWorkoutBlock: every WorkoutEvent from offset
\* `from` on that has a date attribute, with its date through parseHealthDate.
WorkoutEvents(xml, from) == EventsAt(xml, IndexOf(xml, <<"e">>, from))

\* The worker's module-level state is handed through the synchronous calls of
\* one handler step as a record g; g.posted collects the messages the step posts.
DiagnosticMsg == [type |-> "diagnostic"]

\* Lines 219-236: the diagnostic of the first workout block the worker sees.
PostDiagnostic(g) ==
  IF g.diagnosticSent THEN g
  ELSE [g EXCEPT !.diagnosticSent = TRUE, !.posted = Append(@, DiagnosticMsg)]

StatisticsOpen == <<"<", "c">>

CloseStatistics == <<"<", "/", "C", ">">>

Miles == <<"m", "i">>

Kilometres == <<"k", "m">>

Metres == <<"m">>

\* a ?? b
Coalesce(a, b) == IF a # Null THEN a ELSE b

\* v || fallback for an attribute text: null and "" are falsy.
OrElse(v, fallback) == IF v = AttrNull \/ v = <<>> THEN fallback ELSE v

\* String.prototype.toLowerCase on the letters of the model's units.
LowerChar(c) == CASE c = "K" -> "k" [] c = "M" -> "m" [] c = "I" -> "i" [] OTHER -> c

toLowerCase(str) == [i \in 1..Len(str) |-> LowerChar(str[i])]

\* A distance is a decimal n * 10^-e, or null, or NaN.
Decimal(n, e) == [n |-> n, e |-> e]

\* d * (num * 10^-exp) for a distance d of exponent 0: NaN stays NaN, null counts as 0.
Times(d, num, exp) ==
  IF d.n = NaN THEN d
  ELSE IF d.n = Null THEN Decimal(0, 0)
  ELSE Decimal(d.n * num, d.e + exp)

\* A quotient num / den that is not reduced; num is null or NaN for such a value.
Ratio(num, den) == [num |-> num, den |-> den]

\* wo.statistics = {}: no field is set.
NoStatistics ==
  [distance |-> Null, distanceUnit |-> AttrNull,
   avgHR |-> Ratio(Null, 1), minHR |-> Null, maxHR |-> Null]

\* The value of the type attribute that starts at the earlier of the offsets iY
\* (a type="...") and iMarker (a record marker, which is a type attribute whose
\* value is its last character here).
TypeAmong(block, iY, iMarker) ==
  IF iMarker # -1 /\ (iY = -1 \/ iMarker < iY)
  THEN <<block[iMarker + Len(HeartRateMarker)]>>
  ELSE attr(block, "Y")

\* attr(block, 'type')
TypeOf(block) ==
  TypeAmong(block, IndexOf(block, <<"Y">>, 0),
            LeastOf({i \in {IndexOf(block, HeartRateMarker, 0), IndexOf(block, StepMarker, 0)} :
                       i # -1}))

\* Lines 278-282: a block whose type holds 'HeartRate'.
HeartRateStatistics(stats, block, statType) ==
  IF statType # AttrNull /\ IndexOf(statType, <<"h">>, 0) # -1
  THEN [stats EXCEPT
          !.avgHR = Ratio(Coalesce(attrFloat(block, "a"), attrFloat(block, "b")), 1),
          !.minHR = Coalesce(attrFloat(block, "n"), attrFloat(block, "j")),
          !.maxHR = Coalesce(attrFloat(block, "X"), attrFloat(block, "z"))]
  ELSE stats

\* Lines 289-292: dist !== null && dist > 0
SetDistance(stats, dist, distUnit) ==
  IF dist # Null /\ dist # NaN /\ dist > 0
  THEN [stats EXCEPT !.distance = dist, !.distanceUnit = OrElse(distUnit, Miles)]
  ELSE stats

\* Lines 284-293: a block whose type holds 'Distance'.
DistanceStatistics(stats, block, statType) ==
  IF statType # AttrNull /\ IndexOf(statType, <<"d">>, 0) # -1
  THEN SetDistance(stats,
                   Coalesce(attrFloat(block, "A"),
                     Coalesce(attrFloat(block, "Q"),
                       Coalesce(attrFloat(block, "V"), attrFloat(block, "O")))),
                   attr(block, "u"))
  ELSE stats

\* Lines 275-293 for one block: the heart-rate fields, then the distance.
StatisticsOf(stats, block, statType) ==
  DistanceStatistics(HeartRateStatistics(stats, block, statType), block, statType)

\* The offset right after the nearer of the two terminators, -1 when there is none.
BlockEnd(selfIdx, closeIdx) ==
  IF selfIdx = -1 /\ closeIdx = -1 THEN -1
  ELSE IF selfIdx # -1 /\ (closeIdx = -1 \/ selfIdx < closeIdx)
  THEN selfIdx + Len(SelfClose)
  ELSE closeIdx + Len(CloseStatistics)

RECURSIVE WorkoutStatistics(_, _, _)
\* The block that starts at offset i and ends at offset end, then the blocks after.
StatisticsFrom(xml, i, end, stats) ==
  IF i = -1 \/ end = -1 THEN stats
  ELSE WorkoutStatistics(xml, end,
         StatisticsOf(stats, Substring(xml, i, end), TypeOf(Substring(xml, i, end))))

StatisticsAt(xml, i, stats) ==
  StatisticsFrom(xml, i,
                 IF i = -1 THEN -1
                 ELSE BlockEnd(IndexOf(xml, SelfClose, i + Len(StatisticsOpen)),
                               IndexOf(xml, CloseStatistics, i + Len(StatisticsOpen))),
                 stats)

\* The statsRegex loop (lines 272-309): every WorkoutStatistics block from
\* offset `from` on, each up to its nearest terminator; of the statistics the
\* distance, its unit and the heart-rate fields are kept here.
WorkoutStatistics(xml, from, stats) == StatisticsAt(xml, IndexOf(xml, StatisticsOpen, from), stats)

\* Lines 312-315: the statistics distance replaces a missing, NaN or zero
\* totalDistance.
DistanceFallback(wo) ==
  IF wo.totalDistance.n \in {Null, NaN, 0} /\ wo.statistics.distance # Null
  THEN [wo EXCEPT !.totalDistance = Decimal(wo.statistics.distance, 0),
                  !.totalDistanceUnit = OrElse(wo.statistics.distanceUnit, Miles)]
  ELSE wo

\* Lines 318-323: du === 'km', du === 'm'
MilesBy(wo, du) ==
  IF du = Kilometres THEN [wo EXCEPT !.totalDistance = Times(@, 621371, 6)]
  ELSE IF du = Metres THEN [wo EXCEPT !.totalDistance = Times(@, 621371, 9)]
  ELSE wo

\* A faulty NormalizeDistance: the unit is compared as it was written.
NormalizeDistanceCaseSensitive(wo) == MilesBy(wo, wo.totalDistanceUnit)

NormalizeDistance(wo) == MilesBy(wo, toLowerCase(wo.totalDistanceUnit))

\* Lines 256 and 350: the workout is dropped when a date is null, pushed otherwise.
PushWorkout(wo, g) ==
  IF wo.startDate = Null \/ wo.endDate = Null THEN g
  ELSE [g EXCEPT !.workouts = Append(@, NormalizeDistance(DistanceFallback(wo)))]

\* The fragments processWorkoutBlock was called on, kept in g.blocks.
Handed(xml, g) == [g EXCEPT !.blocks = Append(@, xml)]

\* processWorkoutBlock(xml)
processWorkoutBlock(xml, g) ==
  PushWorkout([startDate |-> parseHealthDate(attr(xml, "S")),
               endDate   |-> parseHealthDate(attr(xml, "E")),
               duration  |-> attrFloat(xml, "D"),
               totalDistance     |-> Decimal(attrFloat(xml, "T"), 0),
               totalDistanceUnit |-> OrElse(attr(xml, "U"), Miles),
               statistics |-> WorkoutStatistics(xml, 0, NoStatistics),
               events    |-> WorkoutEvents(xml, 0),
               hrSamples |-> <<>>,
               cadence   |-> Null],
              PostDiagnostic(Handed(xml, g)))

\* A faulty Candidates: the mode is not consulted, record markers are searched
\* for in fast mode too.
CandidatesAnyMode(text, pos, mode) ==
  {c \in {[idx |-> IndexOf(text, HeartRateMarker, pos), type |-> "hr"],
           [idx |-> IndexOf(text, StepMarker, pos), type |-> "step"],
           [idx |-> IndexOf(text, RunningMarker, pos), type |-> "workout"]} : c.idx # -1}

\* The markers processBuffer searches for from offset pos on: the running-workout
\* marker alone in fast mode; heart-rate, step and workout markers otherwise.
Candidates(text, pos, mode) ==
  {c \in (IF mode = "fast" THEN {}
          ELSE {[idx |-> IndexOf(text, HeartRateMarker, pos), type |-> "hr"],
                [idx |-> IndexOf(text, StepMarker, pos), type |-> "step"]})
         \cup {[idx |-> IndexOf(text, RunningMarker, pos), type |-> "workout"]} :
     c.idx # -1}

\* candidates.sort((a, b) => a.idx - b.idx)[0]; two markers never start at the
\* same offset.
Nearest(cands) == CHOOSE c \in cands : \A d \in cands : c.idx <= d.idx

\* val !== null && date (lines 191-193)
KeepHeartRate(val, date, g) ==
  IF val # Null /\ date # AttrNull /\ date # <<>>
  THEN [g EXCEPT !.hrRecords = Append(@, [ts |-> parseHealthDate(date), value |-> val])]
  ELSE g

\* The heart-rate branch of processBuffer.
PushHeartRate(recordXml, g) ==
  KeepHeartRate(attrFloat(recordXml, "V"), attr(recordXml, "S"), g)

\* val !== null && start && end (lines 198-204)
KeepStep(val, start, end, g) ==
  IF val # Null /\ start # AttrNull /\ start # <<>> /\ end # AttrNull /\ end # <<>>
  THEN [g EXCEPT !.stepRecords = Append(@, [tsStart |-> parseHealthDate(start),
                                            tsEnd   |-> parseHealthDate(end),
                                            value   |-> val])]
  ELSE g

\* The step branch of processBuffer.
PushStep(recordXml, g) ==
  KeepStep(attrFloat(recordXml, "V"), attr(recordXml, "S"), attr(recordXml, "E"), g)

\* The history of one call of processBuffer, kept in g.scan: the text it was
\* called on and, at each test of its while loop (line 118), the value of pos
\* and the three collections as they are then.
ScanOf(text) ==
  [text |-> text, pos |-> <<>>, workouts |-> <<>>, hrRecords |-> <<>>, stepRecords |-> <<>>]

NoScan == ScanOf(<<>>)

AtLoopTest(pos, g) ==
  [g EXCEPT !.scan.pos = Append(@, pos),
            !.scan.workouts = Append(@, g.workouts),
            !.scan.hrRecords = Append(@, g.hrRecords),
            !.scan.stepRecords = Append(@, g.stepRecords)]

\* Lines 179-184: the record ends at the nearer of '/>' and '</Record>'.
RecordEnd(endIdx, closeIdx) ==
  IF endIdx # -1 /\ (closeIdx = -1 \/ endIdx < closeIdx)
  THEN endIdx + Len(SelfClose)
  ELSE closeIdx + Len(CloseRecord)

RECURSIVE processBufferFrom(_, _, _)
\* A faulty ScanWorkout: a workout that does not close in the buffer is carried
\* over like a record whose terminator has not arrived.
ScanWorkoutStaysScanning(text, elemStart, endIdx, g) ==
  IF endIdx # -1
  THEN processBufferFrom(text, endIdx + Len(CloseWorkout),
         processWorkoutBlock(Substring(text, elemStart, endIdx + Len(CloseWorkout)), g))
  ELSE [ret |-> SubstringFrom(text, elemStart), g |-> g]

\* Lines 132-139 and 163-170: the workout whose tag starts at elemStart closes at
\* endIdx, or does not close in this buffer.
ScanWorkout(text, elemStart, endIdx, g) ==
  IF endIdx # -1
  THEN processBufferFrom(text, endIdx + Len(CloseWorkout),
         processWorkoutBlock(Substring(text, elemStart, endIdx + Len(CloseWorkout)), g))
  ELSE [ret |-> SubstringFrom(text, elemStart), g |-> [g EXCEPT !.inWorkout = TRUE]]

\* Lines 186-207: the record from elemStart to recordEnd is extracted.
ScanRecordTo(text, type, elemStart, recordEnd, g) ==
  processBufferFrom(text, recordEnd,
    IF type = "hr" THEN PushHeartRate(Substring(text, elemStart, recordEnd), g)
                   ELSE PushStep(Substring(text, elemStart, recordEnd), g))

\* A faulty ScanRecord: a record whose terminator has not arrived is dropped
\* with the rest of the buffer.
ScanRecordDropsOpen(text, type, elemStart, endIdx, closeIdx, g) ==
  IF endIdx = -1 /\ closeIdx = -1
  THEN [ret |-> <<>>, g |-> g]
  ELSE ScanRecordTo(text, type, elemStart, RecordEnd(endIdx, closeIdx), g)

\* Lines 172-177: the record ends at '/>' (endIdx) or '</Record>' (closeIdx), or
\* its terminator has not arrived.
ScanRecord(text, type, elemStart, endIdx, closeIdx, g) ==
  IF endIdx = -1 /\ closeIdx = -1
  THEN [ret |-> SubstringFrom(text, elemStart), g |-> g]
  ELSE ScanRecordTo(text, type, elemStart, RecordEnd(endIdx, closeIdx), g)

\* A faulty ScanElement: a marker whose '<' is missing or lies before the scan
\* position ends the scan, the rest of the buffer is carried over unscanned.
ScanElementGivesUp(text, pos, nearest, elemStart, g) ==
  IF elemStart = -1 \/ elemStart < pos
  THEN [ret |-> SubstringFrom(text, pos), g |-> g]
  ELSE IF nearest.type = "workout"
  THEN ScanWorkout(text, elemStart, IndexOf(text, CloseWorkout, nearest.idx), g)
  ELSE ScanRecord(text, nearest.type, elemStart, IndexOf(text, SelfClose, nearest.idx),
                  IndexOf(text, CloseRecord, nearest.idx), g)

\* Lines 129-130 and 159-160, then the branch of the marker's type.
ScanElement(text, pos, nearest, elemStart, g) ==
  IF elemStart = -1 \/ elemStart < pos
  THEN processBufferFrom(text, nearest.idx + 1, g)
  ELSE IF nearest.type = "workout"
  THEN ScanWorkout(text, elemStart, IndexOf(text, CloseWorkout, nearest.idx), g)
  ELSE ScanRecord(text, nearest.type, elemStart, IndexOf(text, SelfClose, nearest.idx),
                  IndexOf(text, CloseRecord, nearest.idx), g)

ScanNearest(text, pos, nearest, g) ==
  ScanElement(text, pos, nearest, LastIndexOf(text, <<"<">>, nearest.idx), g)

\* A faulty ScanCandidates: when no marker is left the whole unscanned rest is
\* carried over.
ScanCandidatesKeepsRest(text, pos, cands, g) ==
  IF cands = {}
  THEN [ret |-> SubstringFrom(text, pos), g |-> g]
  ELSE ScanNearest(text, pos, Nearest(cands), g)

\* Lines 124-126 and 151-153: no marker left, keep the tail; else the nearest marker.
ScanCandidates(text, pos, cands, g) ==
  IF cands = {}
  THEN [ret |-> SubstringFrom(text, Max(0, Len(text) - TailLen)), g |-> g]
  ELSE ScanNearest(text, pos, Nearest(cands), g)

\* The while loop of processBuffer(text), entered with the scan position pos.
\* The result is the returned carry-over text and the module state.
processBufferFrom(text, pos, g) ==
  IF pos >= Len(text) THEN [ret |-> <<>>, g |-> AtLoopTest(pos, g)]
  ELSE ScanCandidates(text, pos, Candidates(text, pos, g.parseMode), AtLoopTest(pos, g))

\* processBuffer(text)
processBuffer(text, g) == processBufferFrom(text, 0, [g EXCEPT !.scan = ScanOf(text)])

\* JavaScript's < <= >= > on numbers: false as soon as one side is NaN; null
\* converts to 0.
Num(a) == IF a = Null THEN 0 ELSE a

JsLt(a, b) == a # NaN /\ b # NaN /\ Num(a) < Num(b)

JsLe(a, b) == a # NaN /\ b # NaN /\ Num(a) <= Num(b)

JsGe(a, b) == JsLe(b, a)

JsGt(a, b) == JsLt(b, a)

RECURSIVE InsertSorted(_, _, _)
\* x placed after the last element of the sorted sequence s that it is not
\* strictly less than (a comparator result of NaN counts as 0, "equal").
InsertSorted(s, x, key) ==
  IF s = <<>> THEN <<x>>
  ELSE LET last == s[Len(s)]
       IN IF JsLt(x[key], last[key])
          THEN Append(InsertSorted(SubSeq(s, 1, Len(s) - 1), x, key), last)
          ELSE Append(s, x)

RECURSIVE StableSort(_, _)
StableSort(arr, key) ==
  IF arr = <<>> THEN <<>>
  ELSE InsertSorted(StableSort(SubSeq(arr, 1, Len(arr) - 1), key), arr[Len(arr)], key)

ArrayPermutations(arr) ==
  {[i \in 1..Len(arr) |-> arr[f[i]]] :
     f \in {g \in [1..Len(arr) -> 1..Len(arr)] :
              \A i, j \in 1..Len(arr) : i # j => g[i] # g[j]}}

\* (a, b) => a[key] - b[key] is a consistent comparator unless a NaN key, which
\* compares equal to everything, stands beside two keys that differ.
ConsistentComparator(arr, key) ==
  \/ \A i \in 1..Len(arr) : arr[i][key] # NaN
  \/ \A i, j \in 1..Len(arr) :
       arr[i][key] # NaN /\ arr[j][key] # NaN => arr[i][key] = arr[j][key]

\* A faulty SortOutcomes: the array is left in the order it has.
SortOutcomesUnsorted(arr, key) == {arr}

\* Array.prototype.sort((a, b) => a[key] - b[key]): the stable ascending order
\* for a consistent comparator; an implementation-defined order otherwise.
SortOutcomes(arr, key) ==
  IF ConsistentComparator(arr, key) THEN {StableSort(arr, key)} ELSE ArrayPermutations(arr)

RECURSIVE bsearchLoopInclusive(_, _, _, _, _)
\* The loop with <= in place of <.
bsearchLoopInclusive(arr, target, key, lo, hi) ==
  IF lo < hi
  THEN LET mid == (lo + hi) \div 2
       IN IF JsLe(arr[mid + 1][key], target)
          THEN bsearchLoopInclusive(arr, target, key, mid + 1, hi)
          ELSE bsearchLoopInclusive(arr, target, key, lo, mid)
  ELSE lo

\* A search that also passes the elements whose key equals the target.
bsearchInclusive(arr, target, key) ==
  Max(0, bsearchLoopInclusive(arr, target, key, 0, Len(arr)) - 1)

RECURSIVE bsearchLoop(_, _, _, _, _)
bsearchLoop(arr, target, key, lo, hi) ==
  IF lo < hi
  THEN LET mid == (lo + hi) \div 2
       IN IF JsLt(arr[mid + 1][key], target)
          THEN bsearchLoop(arr, target, key, mid + 1, hi)
          ELSE bsearchLoop(arr, target, key, lo, mid)
  ELSE lo

\* bsearch(arr, target, keyFn), indices 0-based; keyFn reads the field `key`.
bsearch(arr, target, key) == Max(0, bsearchLoop(arr, target, key, 0, Len(arr)) - 1)

RECURSIVE HrScan(_, _, _, _)
\* for (i = lo; i < hrRecords.length && hrRecords[i].ts <= endTs; i++)
\*   if (hrRecords[i].ts >= startTs) wo.hrSamples.push(...)
HrScan(hr, i, startTs, endTs) ==
  IF i < Len(hr) /\ JsLe(hr[i + 1].ts, endTs)
  THEN (IF JsGe(hr[i + 1].ts, startTs)
        THEN <<[ts |-> hr[i + 1].ts, value |-> hr[i + 1].value]>> ELSE <<>>)
       \o HrScan(hr, i + 1, startTs, endTs)
  ELSE <<>>

\* Step totals are kept as exact multiples of 1/StepScale: every record duration
\* of the model divides StepScale, so value * (overlap / duration) loses nothing.
StepScale == 8 * 9 * 5 * 7

\* value * ((overlapEnd - overlapStart) / recordDuration), in units of 1/StepScale;
\* nan marks a NaN product.
Apportion(rec, startTs, endTs) ==
  LET overlapStart   == Max(rec.tsStart, startTs)
      overlapEnd     == Min(rec.tsEnd, endTs)
      recordDuration == rec.tsEnd - rec.tsStart
  IN IF rec.value = NaN THEN [nan |-> TRUE, n |-> 0]
     ELSE [nan |-> FALSE,
           n |-> (rec.value * (overlapEnd - overlapStart) * StepScale) \div recordDuration]

RECURSIVE StepScan(_, _, _, _, _)
\* for (i = lo2; i < stepRecords.length && stepRecords[i].tsStart <= endTs; i++)
StepScan(st, i, startTs, endTs, total) ==
  IF i < Len(st) /\ JsLe(st[i + 1].tsStart, endTs)
  THEN LET rec == st[i + 1]
           add == IF JsGe(rec.tsEnd, startTs) /\ rec.tsEnd - rec.tsStart > 0
                  THEN Apportion(rec, startTs, endTs)
                  ELSE [nan |-> FALSE, n |-> 0]
       IN StepScan(st, i + 1, startTs, endTs,
                   [nan |-> total.nan \/ add.nan, n |-> total.n + add.n])
  ELSE total

\* totalSteps of one workout: lines 383-394.
TotalSteps(st, startTs, endTs) ==
  StepScan(st, bsearch(st, startTs, "tsStart"), startTs, endTs, [nan |-> FALSE, n |-> 0])

\* Math.round(totalSteps / wo.duration) for a positive quotient.
Cadence(total, duration) ==
  (2 * total.n + StepScale * duration) \div (2 * StepScale * duration)

\* !x for a number or an unset field
Falsy(x) == x \in {Null, NaN, 0}

RECURSIVE SumOf(_)
\* vals.reduce((a, b) => a + b, 0) over the values of the samples
SumOf(samples) ==
  IF samples = <<>> THEN 0
  ELSE IF Head(samples).value = NaN \/ SumOf(Tail(samples)) = NaN THEN NaN
  ELSE Head(samples).value + SumOf(Tail(samples))

\* Math.max(...vals) and Math.min(...vals) for at least one sample: NaN as soon
\* as one value is NaN.
MaxOf(samples) ==
  IF \E i \in 1..Len(samples) : samples[i].value = NaN THEN NaN
  ELSE CHOOSE v \in {samples[i].value : i \in 1..Len(samples)} :
         \A i \in 1..Len(samples) : samples[i].value <= v

MinOf(samples) ==
  IF \E i \in 1..Len(samples) : samples[i].value = NaN THEN NaN
  ELSE CHOOSE v \in {samples[i].value : i \in 1..Len(samples)} :
         \A i \in 1..Len(samples) : samples[i].value >= v

\* Lines 375-380: statistics derived from the attached samples.
DeriveHeartRate(wo) ==
  IF Len(wo.hrSamples) > 0
  THEN [wo EXCEPT
          !.statistics.avgHR =
             IF Falsy(@.num) THEN Ratio(SumOf(wo.hrSamples), Len(wo.hrSamples)) ELSE @,
          !.statistics.maxHR = IF Falsy(@) THEN MaxOf(wo.hrSamples) ELSE @,
          !.statistics.minHR = IF Falsy(@) THEN MinOf(wo.hrSamples) ELSE @]
  ELSE wo

\* Lines 368-373 and 382-397: attach heart-rate samples, set cadence.
AttachSamples(wo, hr, st) ==
  LET startTs == wo.startDate
      endTs   == wo.endDate
      total   == TotalSteps(st, startTs, endTs)
  IN [wo EXCEPT
        !.hrSamples = @ \o HrScan(hr, bsearch(hr, startTs, "ts"), startTs, endTs),
        !.cadence = IF ~total.nan /\ total.n > 0 /\ JsGt(wo.duration, 0)
                    THEN Cadence(total, wo.duration) ELSE @]

\* The body of "for (const wo of workouts)".
CorrelateWorkout(wo, hr, st) == DeriveHeartRate(AttachSamples(wo, hr, st))

\* Date.prototype.toISOString of a valid date.
toISOString(t) == [iso |-> t]

\* The final workouts.map(...) throws a RangeError when toISOString meets an
\* Invalid Date: a start date, an end date or an event date.
SerializeThrows(ws) ==
  \E i \in 1..Len(ws) :
    \/ ws[i].startDate = NaN
    \/ ws[i].endDate = NaN
    \/ \E k \in 1..Len(ws[i].events) : ws[i].events[k].date = NaN

Serialize(ws) ==
  [i \in 1..Len(ws) |->
     [ws[i] EXCEPT
        !.startDate = toISOString(@),
        !.endDate = toISOString(@),
        !.events = [k \in 1..Len(@) |->
                      [type |-> @[k].type,
                       date |-> IF @[k].date # Null THEN toISOString(@[k].date)
                                ELSE Null]]]]

\* correlateData(workouts, hrRecords, stepRecords): every outcome the call can
\* have: the arrays as it leaves them (it sorts and enriches them in place) and
\* the terminal message the handler posts for it.
correlateData(g) ==
  IF g.workouts = <<>>
  THEN {[g |-> g, msg |-> [type |-> "complete", data |-> <<>>]]}
  ELSE
    {LET enrich == g.parseMode = "detailed" /\ (g.hrRecords # <<>> \/ g.stepRecords # <<>>)
         hr == IF enrich THEN o.hr ELSE g.hrRecords
         st == IF enrich THEN o.st ELSE g.stepRecords
         ws == IF enrich
               THEN [i \in 1..Len(o.ws) |-> CorrelateWorkout(o.ws[i], hr, st)]
               ELSE o.ws
     IN [g   |-> [g EXCEPT !.workouts = ws, !.hrRecords = hr, !.stepRecords = st],
         msg |-> IF SerializeThrows(ws)
                 THEN [type |-> "error", message |-> "RangeError"]
                 ELSE [type |-> "complete", data |-> Serialize(ws)]] :
       o \in [ws : SortOutcomes(g.workouts, "startDate"),
              hr : SortOutcomes(g.hrRecords, "ts"),
              st : SortOutcomes(g.stepRecords, "tsStart")]}

\* reportProgress(offset, total): value is min(offset / total, 1), kept as the pair.
reportProgress(offset, total, g) ==
  [g EXCEPT !.posted = Append(@, [type   |-> "progress",
                                  offset |-> offset,
                                  total  |-> total,
                                  stats  |-> [workouts    |-> Len(g.workouts),
                                              hrRecords   |-> Len(g.hrRecords),
                                              stepRecords |-> Len(g.stepRecords)]])]

\* parseFile's locals at the first test of its while loop.
InitLocals == [offset |-> 0, buffer |-> <<>>, workoutBuf |-> <<>>]

\* A faulty ResetGlobals: the workouts of an earlier parse are kept.
ResetGlobalsKeepsWorkouts(g, mode) ==
  [g EXCEPT !.parseMode = mode, !.hrRecords = <<>>, !.stepRecords = <<>>,
            !.inWorkout = FALSE]

\* The module state as parseFile leaves it before its loop (lines 54-57), under
\* the mode the handler has just stored.
ResetGlobals(g, mode) ==
  [g EXCEPT !.parseMode = mode, !.workouts = <<>>, !.hrRecords = <<>>,
            !.stepRecords = <<>>, !.inWorkout = FALSE]

\* The module state of a worker that has handled no message yet.
FreshGlobals ==
  [workouts |-> <<>>, hrRecords |-> <<>>, stepRecords |-> <<>>, parseMode |-> "fast",
   inWorkout |-> FALSE, diagnosticSent |-> FALSE, posted |-> <<>>, scan |-> NoScan,
   blocks |-> <<>>]


\* A faulty ChunkSizeAt: the size of the last chunk is not cut to what is left.
ChunkSizeAtWhole(file, offset, cs) == cs

\* The size and the text of the chunk read at offset: lines 65-66.
ChunkSizeAt(file, offset, cs) == Min(cs, Len(file) - offset)

ChunkAt(file, offset, cs) == Substring(file, offset, offset + ChunkSizeAt(file, offset, cs))

\* A faulty ScanAndReport: the text of a workout left open becomes the
\* accumulator and stays in the pending buffer too.
ScanAndReportKeepsBuffer(offset, total, buffer, workoutBuf, g) ==
  LET r == processBuffer(buffer, g)
  IN [l |-> IF r.g.inWorkout
            THEN [offset |-> offset, buffer |-> r.ret, workoutBuf |-> r.ret]
            ELSE [offset |-> offset, buffer |-> r.ret, workoutBuf |-> workoutBuf],
      g |-> reportProgress(offset, total, r.g)]

\* Lines 85-92: scan the pending buffer, move it to the accumulator when a
\* workout was left open, report progress.
ScanAndReport(offset, total, buffer, workoutBuf, g) ==
  LET r == processBuffer(buffer, g)
  IN [l |-> IF r.g.inWorkout
            THEN [offset |-> offset, buffer |-> <<>>, workoutBuf |-> r.ret]
            ELSE [offset |-> offset, buffer |-> r.ret, workoutBuf |-> workoutBuf],
      g |-> reportProgress(offset, total, r.g)]

\* A faulty ChunkStep: no progress is reported for a chunk that arrives while the
\* close tag of a workout is awaited and does not bring it.
ChunkStepSilentWhileAwaiting(l, g, file, cs) ==
  IF g.inWorkout /\ IndexOf(l.workoutBuf \o ChunkAt(file, l.offset, cs), CloseWorkout, 0) = -1
  THEN [l |-> [offset |-> l.offset + ChunkSizeAt(file, l.offset, cs), buffer |-> l.buffer,
               workoutBuf |-> l.workoutBuf \o ChunkAt(file, l.offset, cs)],
        g |-> g]
  ELSE ScanAndReport(l.offset + ChunkSizeAt(file, l.offset, cs), Len(file),
                     l.buffer \o ChunkAt(file, l.offset, cs), l.workoutBuf, g)

DeferRemainder(offset, total, wb, end, g) ==
  [l |-> [offset |-> offset, buffer |-> SubstringFrom(wb, end), workoutBuf |-> <<>>],
   g |-> reportProgress(offset, total,
           [processWorkoutBlock(Substring(wb, 0, end), g) EXCEPT !.inWorkout = FALSE])]

\* A faulty ChunkStep: when the awaited close tag arrives the workout is
\* extracted and the text after the tag is kept as the pending buffer, to be
\* scanned with the next chunk.
ChunkStepDefersRemainder(l, g, file, cs) ==
  IF g.inWorkout /\ IndexOf(l.workoutBuf \o ChunkAt(file, l.offset, cs), CloseWorkout, 0) # -1
  THEN DeferRemainder(l.offset + ChunkSizeAt(file, l.offset, cs), Len(file),
                      l.workoutBuf \o ChunkAt(file, l.offset, cs),
                      IndexOf(l.workoutBuf \o ChunkAt(file, l.offset, cs), CloseWorkout, 0)
                        + Len(CloseWorkout), g)
  ELSE IF g.inWorkout
  THEN [l |-> [offset |-> l.offset + ChunkSizeAt(file, l.offset, cs), buffer |-> l.buffer,
               workoutBuf |-> l.workoutBuf \o ChunkAt(file, l.offset, cs)],
        g |-> reportProgress(l.offset + ChunkSizeAt(file, l.offset, cs), Len(file), g)]
  ELSE ScanAndReport(l.offset + ChunkSizeAt(file, l.offset, cs), Len(file),
                     l.buffer \o ChunkAt(file, l.offset, cs), l.workoutBuf, g)

\* Lines 72-76 and 85-92 for an accumulator wb whose first close tag ends at end.
DeferredScan(offset, total, wb, end, g) ==
  ScanAndReport(offset, total, SubstringFrom(wb, end), <<>>,
                [processWorkoutBlock(Substring(wb, 0, end), g) EXCEPT !.inWorkout = FALSE])

\* A faulty ChunkStep: a chunk that arrives while the close tag is awaited and
\* does not bring it replaces the accumulator.
ChunkStepForgetsAccumulator(l, g, file, cs) ==
  IF g.inWorkout /\ IndexOf(l.workoutBuf \o ChunkAt(file, l.offset, cs), CloseWorkout, 0) = -1
  THEN [l |-> [offset |-> l.offset + ChunkSizeAt(file, l.offset, cs), buffer |-> l.buffer,
               workoutBuf |-> ChunkAt(file, l.offset, cs)],
        g |-> reportProgress(l.offset + ChunkSizeAt(file, l.offset, cs), Len(file), g)]
  ELSE IF g.inWorkout
  THEN DeferredScan(l.offset + ChunkSizeAt(file, l.offset, cs), Len(file),
                    l.workoutBuf \o ChunkAt(file, l.offset, cs),
                    IndexOf(l.workoutBuf \o ChunkAt(file, l.offset, cs), CloseWorkout, 0)
                      + Len(CloseWorkout), g)
  ELSE ScanAndReport(l.offset + ChunkSizeAt(file, l.offset, cs), Len(file),
                     l.buffer \o ChunkAt(file, l.offset, cs), l.workoutBuf, g)

\* One iteration of parseFile's while loop once the chunk has been read:
\* lines 67-92.
ChunkStep(l, g, file, cs) ==
  LET total  == Len(file)
      chunk  == ChunkAt(file, l.offset, cs)
      offset == l.offset + ChunkSizeAt(file, l.offset, cs)
  IN IF g.inWorkout
     THEN LET wb     == l.workoutBuf \o chunk
              endIdx == IndexOf(wb, CloseWorkout, 0)
          IN IF endIdx # -1
             THEN ScanAndReport(offset, total,
                    SubstringFrom(wb, endIdx + Len(CloseWorkout)), <<>>,
                    [processWorkoutBlock(Substring(wb, 0, endIdx + Len(CloseWorkout)), g)
                       EXCEPT !.inWorkout = FALSE])
             ELSE [l |-> [offset |-> offset, buffer |-> l.buffer, workoutBuf |-> wb],
                   g |-> reportProgress(offset, total, g)]
     ELSE ScanAndReport(offset, total, l.buffer \o chunk, l.workoutBuf, g)

\* A faulty AfterLoop: what the accumulator holds at the end of the input is
\* thrown away.
AfterLoopDropsAccumulator(l, g) ==
  IF Len(l.buffer) > 0 /\ ~g.inWorkout THEN processBuffer(l.buffer, g).g ELSE g

\* parseFile after its loop: lines 95-100.
AfterLoop(l, g) ==
  LET g1 == IF Len(l.buffer) > 0 /\ ~g.inWorkout THEN processBuffer(l.buffer, g).g ELSE g
  IN IF g1.inWorkout /\ Len(l.workoutBuf) > 0
     THEN processWorkoutBlock(l.workoutBuf, g1)
     ELSE g1

RECURSIVE RunFrom(_, _, _, _)
\* The terminal messages a parse can post when it runs on, undisturbed and with
\* every read succeeding, from locals l and module state g.
RunFrom(l, g, file, cs) ==
  IF l.offset < Len(file)
  THEN LET s == ChunkStep(l, g, file, cs) IN RunFrom(s.l, s.g, file, cs)
  ELSE {o.msg : o \in correlateData(AfterLoop(l, g))}

\* The terminal messages of a 'parse' request handled alone by a fresh worker
\* whose reads all succeed.
RunAlone(file, mode, cs) == RunFrom(InitLocals, ResetGlobals(FreshGlobals, mode), file, cs)

(***************************************************************************)
(* The worker as a state machine.  A step is what runs between two          *)
(* suspensions of the handler: JavaScript runs each of them to completion.  *)
(***************************************************************************)
VARIABLES
  workouts,        \* let workouts (line 6)
  hrRecords,       \* let hrRecords (line 7)
  stepRecords,     \* let stepRecords (line 8)
  parseMode,       \* let parseMode (line 9)
  inWorkout,       \* parseState.inWorkout (line 51)
  diagnosticSent,  \* let diagnosticSent (line 215)
  run,             \* per 'parse' message: the invocation of parseFile it started
  msgs,            \* what the worker has posted, each message with its request
  chunkSize        \* CHUNK_SIZE (line 4), scaled

vars == <<workouts, hrRecords, stepRecords, parseMode, inWorkout, diagnosticSent,
          run, msgs, chunkSize>>

Modes == {"fast", "detailed"}

\* The module state, gathered for the operators above.
Globals ==
  [workouts |-> workouts, hrRecords |-> hrRecords, stepRecords |-> stepRecords,
   parseMode |-> parseMode, inWorkout |-> inWorkout, diagnosticSent |-> diagnosticSent,
   posted |-> <<>>, scan |-> NoScan, blocks |-> <<>>]

SetGlobals(g) ==
  /\ workouts' = g.workouts
  /\ hrRecords' = g.hrRecords
  /\ stepRecords' = g.stepRecords
  /\ parseMode' = g.parseMode
  /\ inWorkout' = g.inWorkout
  /\ diagnosticSent' = g.diagnosticSent

Tagged(r, posted) == [i \in 1..Len(posted) |-> [req |-> r, msg |-> posted[i]]]

\* A 'parse' message the main thread has sent and the worker has not handled yet.
Queued(file, mode) ==
  [pc |-> "queued", file |-> file, mode |-> mode, offset |-> 0, buffer |-> <<>>,
   workoutBuf |-> <<>>, reads |-> <<>>]

Locals(r) == [offset |-> run[r].offset, buffer |-> run[r].buffer,
              workoutBuf |-> run[r].workoutBuf]

\* parseFile of request r at the test of its while loop, with locals l and module
\* state g: it requests the next chunk and suspends (readChunk, line 66), or it
\* leaves the loop, returns, and the handler correlates and posts the terminal
\* message (lines 16-19).
Continue(r, l, g) ==
  IF l.offset < Len(run[r].file)
  THEN /\ run' = [run EXCEPT ![r] = [@ EXCEPT
                    !.pc = "reading", !.offset = l.offset, !.buffer = l.buffer,
                    !.workoutBuf = l.workoutBuf,
                    !.reads = Append(@, [offset |-> l.offset,
                                         size |-> ChunkSizeAt(run[r].file, l.offset, chunkSize)])]]
       /\ SetGlobals(g)
       /\ msgs' = msgs \o Tagged(r, g.posted)
  ELSE LET g2 == AfterLoop(l, g)
       IN \E o \in correlateData(g2) :
            /\ run' = [run EXCEPT ![r] = [@ EXCEPT
                         !.pc = "done", !.offset = l.offset, !.buffer = l.buffer,
                         !.workoutBuf = l.workoutBuf]]
            /\ SetGlobals(o.g)
            /\ msgs' = msgs \o Tagged(r, Append(g2.posted, o.msg))

\* self.onmessage for a 'parse' message (messages are handled in the order sent):
\* store the mode, enter parseFile, reset the module state, reach the loop.
Receive(r) ==
  /\ run[r].pc = "queued"
  /\ \A q \in 1..(r - 1) : run[q].pc # "queued"
  /\ Continue(r, InitLocals, ResetGlobals(Globals, run[r].mode))
  /\ UNCHANGED chunkSize

\* A faulty ChunkLoaded: the next chunk is asked for while the pending read is
\* still outstanding and its chunk unscanned.
ChunkLoadedOverlapping(r) ==
  /\ run[r].pc = "reading"
  /\ Len(run[r].reads) < Len(run[r].file)
  /\ run' = [run EXCEPT ![r].reads = Append(@, @[Len(@)])]
  /\ UNCHANGED <<workouts, hrRecords, stepRecords, parseMode, inWorkout, diagnosticSent,
                 msgs, chunkSize>>

\* The pending read of request r resolves (reader.onload): the loop body runs on
\* the chunk, then the loop test.
ChunkLoaded(r) ==
  /\ run[r].pc = "reading"
  /\ LET s == ChunkStep(Locals(r), Globals, run[r].file, chunkSize)
     IN Continue(r, s.l, s.g)
  /\ UNCHANGED chunkSize

\* A faulty ChunkFailed: the rejection is swallowed, the request ends without a
\* terminal message.
ChunkFailedSilent(r) ==
  /\ run[r].pc = "reading"
  /\ run' = [run EXCEPT ![r].pc = "done"]
  /\ UNCHANGED <<workouts, hrRecords, stepRecords, parseMode, inWorkout, diagnosticSent,
                 msgs, chunkSize>>

\* A faulty ChunkFailed: the error is posted and the same chunk is asked for again.
ChunkFailedRetries(r) ==
  /\ run[r].pc = "reading"
  /\ Len(run[r].reads) <= Len(run[r].file)
  /\ run' = [run EXCEPT ![r].reads = Append(@, @[Len(@)])]
  /\ msgs' = Append(msgs, [req |-> r, msg |-> [type |-> "error", message |-> "ReadError"]])
  /\ UNCHANGED <<workouts, hrRecords, stepRecords, parseMode, inWorkout, diagnosticSent,
                 chunkSize>>

\* The pending read of request r fails (reader.onerror): the rejection leaves
\* parseFile and reaches the handler's catch, which posts 'error'.
ChunkFailed(r) ==
  /\ run[r].pc = "reading"
  /\ run' = [run EXCEPT ![r].pc = "done"]
  /\ msgs' = Append(msgs, [req |-> r, msg |-> [type |-> "error", message |-> "ReadError"]])
  /\ UNCHANGED <<workouts, hrRecords, stepRecords, parseMode, inWorkout, diagnosticSent,
                 chunkSize>>

Next == \E r \in 1..Len(run) : Receive(r) \/ ChunkLoaded(r) \/ ChunkFailed(r)

\* ---- inputs ----

Attribute(name, value) == <<name>> \o value \o <<Quote>>

WorkoutElement(attrs, body) == <<"<">> \o RunningMarker \o attrs \o body \o CloseWorkout

HeartRateRecord(attrs) == <<"<">> \o HeartRateMarker \o attrs \o SelfClose

StepRecord(attrs) == <<"<">> \o StepMarker \o attrs \o SelfClose

Filler == <<".">>

\* A running workout from 1 to 5 lasting 2 minutes; a shorter one from 2 to 4.
WorkoutA ==
  WorkoutElement(Attribute("S", <<"1">>) \o Attribute("E", <<"5">>)
                   \o Attribute("D", <<"2">>), <<>>)

WorkoutB == WorkoutElement(Attribute("S", <<"2">>) \o Attribute("E", <<"4">>), <<>>)

HeartRateAt3 == HeartRateRecord(Attribute("V", <<"7">>) \o Attribute("S", <<"3">>))

StepsFrom0To4 ==
  StepRecord(Attribute("V", <<"6">>) \o Attribute("S", <<"0">>) \o Attribute("E", <<"4">>))

StepsFrom0To1 ==
  StepRecord(Attribute("V", <<"2">>) \o Attribute("S", <<"0">>) \o Attribute("E", <<"1">>))

\* Well-formed input: every date and number parses.
Pieces == {Filler, WorkoutA, WorkoutB, HeartRateAt3, StepsFrom0To4, StepsFrom0To1}

\* Elements whose date attribute is present and unparseable.
WorkoutBadStart ==
  WorkoutElement(Attribute("S", <<"x">>) \o Attribute("E", <<"4">>), <<>>)

WorkoutBadEvent ==
  WorkoutElement(Attribute("S", <<"1">>) \o Attribute("E", <<"3">>),
                 Attribute("e", <<"x">>))

HeartRateBadDate == HeartRateRecord(Attribute("V", <<"7">>) \o Attribute("S", <<"x">>))

StepBadDate ==
  StepRecord(Attribute("V", <<"6">>) \o Attribute("S", <<"x">>) \o Attribute("E", <<"4">>))

\* Input with malformed elements among valid ones.
MalformedPieces ==
  {WorkoutB, HeartRateAt3, WorkoutBadStart, WorkoutBadEvent, HeartRateBadDate, StepBadDate}

\* Input of two requests that share a worker.
SharedPieces == {WorkoutB, HeartRateAt3}

\* The most pieces a file is made of.
MaxPieces == 3

\* The most pieces in a file of two requests that share a worker.
MaxShared == 2

\* The most heart-rate records after a workout with heart-rate statistics.
MaxSamples == 2

\* The most records in an array that is searched.
MaxSearched == 3

\* The chunk size that splits such a workout inside its statistics block.
HeartRateChunk == 11

RECURSIVE FilesOf(_, _)
\* Every concatenation of at most n pieces.
FilesOf(pieces, n) ==
  IF n = 0 THEN {<<>>}
  ELSE LET shorter == FilesOf(pieces, n - 1)
       IN shorter \cup {f \o p : f \in shorter, p \in pieces}

\* The chunk sizes tried on a file: single characters, the length of each piece
\* (a boundary right after a first piece), the whole file.
ChunkSizes(pieces, file) ==
  {Min(c, Max(1, Len(file))) : c \in {1, Max(1, Len(file))} \cup {Len(p) : p \in pieces}}

InitWorker ==
  /\ workouts = <<>>
  /\ hrRecords = <<>>
  /\ stepRecords = <<>>
  /\ parseMode = "fast"
  /\ inWorkout = FALSE
  /\ diagnosticSent = FALSE
  /\ msgs = <<>>

\* One 'parse' request to a fresh worker.
Init ==
  /\ InitWorker
  /\ \E f \in FilesOf(Pieces, MaxPieces), m \in Modes :
       /\ run = <<Queued(f, m)>>
       /\ chunkSize \in ChunkSizes(Pieces, f)

Spec == Init /\ [][Next]_vars

\* One 'parse' request to a fresh worker, on input with malformed elements.
InitMalformed ==
  /\ InitWorker
  /\ \E f \in FilesOf(MalformedPieces, MaxPieces), m \in Modes :
       /\ run = <<Queued(f, m)>>
       /\ chunkSize \in ChunkSizes(MalformedPieces, f)

SpecMalformed == InitMalformed /\ [][Next]_vars

\* Two 'parse' requests sent to the same fresh worker: the second is handled
\* whenever the worker is idle, while the first is suspended on a read or after
\* it has ended.
InitTwo ==
  /\ InitWorker
  /\ \E f1, f2 \in FilesOf(SharedPieces, MaxShared) \ {<<>>}, m1, m2 \in Modes :
       run = <<Queued(f1, m1), Queued(f2, m2)>>
  /\ chunkSize \in {Len(p) : p \in SharedPieces}

SpecTwo == InitTwo /\ [][Next]_vars

\* Input that ends anywhere: inside an element, an attribute or a close tag.
TruncatedPieces == {Filler, WorkoutA, WorkoutB, HeartRateAt3}

\* The most pieces in a file that is cut short.
MaxTruncated == 2

\* One 'parse' request to a fresh worker, on a file cut short at any length.
InitTruncated ==
  /\ InitWorker
  /\ \E f \in FilesOf(TruncatedPieces, MaxTruncated), m \in Modes :
       \E n \in 0..Len(f) :
         /\ run = <<Queued(SubSeq(f, 1, n), m)>>
         /\ chunkSize \in ChunkSizes(TruncatedPieces, SubSeq(f, 1, n))

SpecTruncated == InitTruncated /\ [][Next]_vars

\* The text of a number or of a unit as an attribute value.
DigitChar(n) == CHOOSE c \in Digits : DigitVal(c) = n

NumberText(n) == IF n = NaN THEN <<"x">> ELSE <<DigitChar(n)>>

\* An attribute that is left out when its value is null.
Optional(name, value) == IF value = AttrNull THEN <<>> ELSE Attribute(name, value)

\* A WorkoutStatistics block of a distance type: its amount under one of the
\* four attribute names, an optional unit, one of the two terminators.
StatisticsBlock(b) ==
  StatisticsOpen \o Attribute("Y", <<"d">>) \o Attribute(b.name, NumberText(b.dist))
    \o Optional("u", b.unit) \o (IF b.selfClosing THEN SelfClose ELSE CloseStatistics)

RECURSIVE StatisticsBlocks(_)
StatisticsBlocks(bs) ==
  IF bs = <<>> THEN <<>> ELSE StatisticsBlock(Head(bs)) \o StatisticsBlocks(Tail(bs))

\* A running workout from 1 to 3 with a totalDistance (null: none), a
\* totalDistanceUnit (null: none) and statistics blocks.
DistanceWorkout(own, unit, blocks) ==
  WorkoutElement(Attribute("S", <<"1">>) \o Attribute("E", <<"3">>)
                   \o (IF own = Null THEN <<>> ELSE Attribute("T", NumberText(own)))
                   \o Optional("U", unit),
                 StatisticsBlocks(blocks))

OwnDistances == {Null, NaN, 0, 4}

UnitTexts == {AttrNull, Miles, Kilometres, <<"K", "m">>, Metres, <<"M">>}

Block(name, dist, unit, selfClosing) ==
  [name |-> name, dist |-> dist, unit |-> unit, selfClosing |-> selfClosing]

StatisticsChoices ==
  {<<>>,
   <<Block("A", 5, Kilometres, TRUE)>>,
   <<Block("Q", 5, AttrNull, FALSE)>>,
   <<Block("V", 0, Kilometres, TRUE)>>,
   <<Block("O", 5, <<"M">>, TRUE), Block("A", NaN, Kilometres, TRUE)>>,
   <<Block("A", 2, Miles, FALSE), Block("V", 5, <<"K", "M">>, TRUE)>>}

\* The chunk size that splits a distance workout inside its attributes.
DistanceChunk == 7

\* One 'parse' request to a fresh worker, on one workout with distances.
InitDistance ==
  /\ InitWorker
  /\ \E own \in OwnDistances, unit \in UnitTexts, blocks \in StatisticsChoices, m \in Modes :
       /\ run = <<Queued(DistanceWorkout(own, unit, blocks), m)>>
       /\ chunkSize \in {1, DistanceChunk, Len(DistanceWorkout(own, unit, blocks))}

SpecDistance == InitDistance /\ [][Next]_vars

\* Text in which markers, tag openers and terminators follow each other in
\* any order.
Tokens ==
  {<<"<">>, RunningMarker, HeartRateMarker, StepMarker, SelfClose, CloseWorkout,
   CloseRecord, Filler}

\* The most tokens in a text.
MaxTokens == 4

\* The chunk size that splits a text of tokens.
TokenChunk == 3

\* One 'parse' request to a fresh worker, on a text of tokens.
InitTokens ==
  /\ InitWorker
  /\ \E f \in FilesOf(Tokens, MaxTokens), m \in Modes :
       /\ run = <<Queued(f, m)>>
       /\ chunkSize \in {TokenChunk, Max(1, Len(f))}

SpecTokens == InitTokens /\ [][Next]_vars

\* Records whose value attribute is present and is not a number.
HeartRateBadValue == HeartRateRecord(Attribute("V", <<"x">>) \o Attribute("S", <<"3">>))

StepBadValue ==
  StepRecord(Attribute("V", <<"x">>) \o Attribute("S", <<"0">>) \o Attribute("E", <<"4">>))

\* Input with non-numeric values among valid elements.
BadValuePieces == {WorkoutA, HeartRateAt3, HeartRateBadValue, StepBadValue}

\* One 'parse' request to a fresh worker, on input with non-numeric values.
InitBadValue ==
  /\ InitWorker
  /\ \E f \in FilesOf(BadValuePieces, MaxPieces), m \in Modes :
       /\ run = <<Queued(f, m)>>
       /\ chunkSize \in ChunkSizes(BadValuePieces, f)

SpecBadValue == InitBadValue /\ [][Next]_vars

\* A heart-rate sample at 4, past WorkoutB and within WorkoutA.
HeartRateAt4 == HeartRateRecord(Attribute("V", <<"9">>) \o Attribute("S", <<"4">>))

\* A running workout from 1 to 5 with one WorkoutStatistics block of the
\* heart-rate type; an attribute whose text is null is left out.
HeartRateWorkout(average, minimum, maximum) ==
  WorkoutElement(Attribute("S", <<"1">>) \o Attribute("E", <<"5">>),
                 StatisticsOpen \o HeartRateMarker \o Optional("a", average)
                   \o Optional("n", minimum) \o Optional("X", maximum) \o SelfClose)

\* The texts of a heart-rate statistic: none, zero, a positive number.
StatisticTexts == {AttrNull, <<"0">>, <<"6">>}

\* The heart-rate records that follow the workout.
SampleFiles == FilesOf({HeartRateAt3, HeartRateAt4}, MaxSamples)

\* One 'parse' request to a fresh worker, on one workout with heart-rate
\* statistics followed by heart-rate records.
InitHeartRate ==
  /\ InitWorker
  /\ \E a \in StatisticTexts, n \in StatisticTexts, x \in StatisticTexts,
        f \in SampleFiles, m \in Modes :
       /\ run = <<Queued(HeartRateWorkout(a, n, x) \o f, m)>>
       /\ chunkSize \in {HeartRateChunk, Len(HeartRateWorkout(a, n, x)),
                         Len(HeartRateWorkout(a, n, x) \o f)}

SpecHeartRate == InitHeartRate /\ [][Next]_vars

\* Records at further times, for arrays with several keys below, at and above
\* a target.
HeartRateAt2 == HeartRateRecord(Attribute("V", <<"5">>) \o Attribute("S", <<"2">>))

StepsFrom3To4 ==
  StepRecord(Attribute("V", <<"4">>) \o Attribute("S", <<"3">>) \o Attribute("E", <<"4">>))

SearchedPieces == {HeartRateAt2, HeartRateAt3, HeartRateAt4, StepsFrom0To4, StepsFrom3To4}

\* A running workout that ends at 5.
SearchWorkout(start) ==
  WorkoutElement(Attribute("S", <<start>>) \o Attribute("E", <<"5">>), <<>>)

SearchTargets == {"1", "2", "3", "4", "5"}

\* One 'parse' request to a fresh worker, on one workout followed by records in
\* any order.
InitSearch ==
  /\ InitWorker
  /\ \E start \in SearchTargets, f \in FilesOf(SearchedPieces, MaxSearched), m \in Modes :
       /\ run = <<Queued(SearchWorkout(start) \o f, m)>>
       /\ chunkSize \in {Len(SearchWorkout(start)), Len(SearchWorkout(start) \o f)}

SpecSearch == InitSearch /\ [][Next]_vars

\* Running workouts from 1 to 3 without a close tag of their own: one that is
\* self-closing, one whose start tag is followed by the next element.
WorkoutSelfClosed ==
  <<"<">> \o RunningMarker \o Attribute("S", <<"1">>) \o Attribute("E", <<"3">>) \o SelfClose

WorkoutUnclosed ==
  <<"<">> \o RunningMarker \o Attribute("S", <<"1">>) \o Attribute("E", <<"3">>)

UnclosedPieces == {Filler, WorkoutB, WorkoutSelfClosed, WorkoutUnclosed}

\* One 'parse' request to a fresh worker, on input with workouts that have no
\* close tag.
InitUnclosed ==
  /\ InitWorker
  /\ \E f \in FilesOf(UnclosedPieces, MaxPieces), m \in Modes :
       /\ run = <<Queued(f, m)>>
       /\ chunkSize \in ChunkSizes(UnclosedPieces, f)

SpecUnclosed == InitUnclosed /\ [][Next]_vars

\* Input of two requests of which the second is sent after the first has
\* ended: elements that are kept, one left open, one whose date makes the
\* serialization throw.
SequentialPieces == {WorkoutB, HeartRateAt3, WorkoutUnclosed, WorkoutBadStart}

\* The main thread, having received the terminal message of its first request,
\* sends a second 'parse' message to the same worker.
SendAfterTerminal ==
  /\ Len(run) = 1
  /\ run[1].pc = "done"
  /\ \E f \in FilesOf(SequentialPieces, MaxShared) \ {<<>>}, m \in Modes :
       run' = Append(run, Queued(f, m))
  /\ UNCHANGED <<workouts, hrRecords, stepRecords, parseMode, inWorkout, diagnosticSent,
                 msgs, chunkSize>>

InitSequential ==
  /\ InitWorker
  /\ \E f \in FilesOf(SequentialPieces, MaxShared) \ {<<>>}, m \in Modes :
       run = <<Queued(f, m)>>
  /\ chunkSize \in {Len(HeartRateAt3), Len(WorkoutB) + Len(HeartRateAt3)}

NextSequential == Next \/ SendAfterTerminal

SpecSequential == InitSequential /\ [][NextSequential]_vars

(***************************************************************************)
(* Properties.                                                              *)
(***************************************************************************)
Requests == 1..Len(run)

Done(r) == run[r].pc = "done"

IsTerminal(m) == m.type \in {"complete", "error"}

PostedBy(r) == {i \in 1..Len(msgs) : msgs[i].req = r}

TerminalIdx(r) == {i \in PostedBy(r) : IsTerminal(msgs[i].msg)}

ProgressIdx(r) == {i \in PostedBy(r) : msgs[i].msg.type = "progress"}

TerminalOf(r) == msgs[CHOOSE i \in TerminalIdx(r) : TRUE].msg

\* A read of request r has failed.
ReadFailed(r) ==
  \E i \in TerminalIdx(r) :
    msgs[i].msg.type = "error" /\ msgs[i].msg.message = "ReadError"

\* Request r has ended and none of its reads failed.
Parsed(r) == Done(r) /\ ~ReadFailed(r)

Completed(r) == Parsed(r) /\ TerminalOf(r).type = "complete"

Contains(file, piece) == IndexOf(file, piece, 0) # -1

Count(seq, x) == Cardinality({i \in 1..Len(seq) : seq[i] = x})

\* C1: the final result of a parse does not depend on where the chunk boundaries
\* fall: a request read in chunks of any size (single characters included) ends
\* with the terminal message that the same file read as one chunk ends with.
C1_ChunkingIndependent ==
  \A r \in Requests :
    Parsed(r) =>
      TerminalOf(r) \in RunAlone(run[r].file, run[r].mode, Max(1, Len(run[r].file)))

\* C2: a workout whose startDate is present but unparseable is left out of the
\* final output, and the valid workouts of the same input still appear in the
\* 'complete' result.
C2_UnparseableStartExcluded ==
  \A r \in Requests :
    Parsed(r) /\ Contains(run[r].file, WorkoutBadStart) =>
      /\ TerminalOf(r).type = "complete"
      /\ \A i \in 1..Len(TerminalOf(r).data) : TerminalOf(r).data[i].startDate.iso # NaN
      /\ Contains(run[r].file, WorkoutB) =>
           \E i \in 1..Len(TerminalOf(r).data) :
             TerminalOf(r).data[i].startDate = toISOString(2)

\* C3: a request has no terminal message before it ends and exactly one once it
\* has ended ('complete' or 'error', never both), none of its progress messages
\* follows its terminal message, and a request that has not ended is waiting to
\* be handled or for a read of a chunk that lies inside the file.
C3_OneTerminalMessage ==
  \A r \in Requests :
    /\ Cardinality(TerminalIdx(r)) <= 1
    /\ Done(r) <=> TerminalIdx(r) # {}
    /\ \A i \in TerminalIdx(r), j \in ProgressIdx(r) : j < i
    /\ ~Done(r) =>
         \/ run[r].pc = "queued"
         \/ run[r].pc = "reading" /\ run[r].offset < Len(run[r].file)

\* C3 witness: a request that ended with 'complete' after several progress messages.
C3_Witness ==
  \E r \in Requests :
    /\ Done(r)
    /\ TerminalOf(r).type = "complete"
    /\ Cardinality(ProgressIdx(r)) >= 2

\* C4: when two requests share a worker, each ends with the terminal message it
\* would have ended with had it run alone.
C4_RunsIsolated ==
  \A r \in Requests :
    Parsed(r) => TerminalOf(r) \in RunAlone(run[r].file, run[r].mode, chunkSize)

\* C5: malformed content of a single element never aborts the parse: a request
\* whose reads all succeed ends with 'complete', not with 'error'.
C5_MalformedNeverAborts ==
  \A r \in Requests : Parsed(r) => TerminalOf(r).type = "complete"

\* What request r has issued and posted is left as it is by a step.
Untouched(r) ==
  /\ run'[r] = run[r]
  /\ \A i \in (Len(msgs) + 1)..Len(msgs') : msgs'[i].req # r

\* The offsets request r has asked for are strictly increasing.
ReadsAscend(r) ==
  \A i, j \in 1..Len(run[r].reads) :
    i < j => run[r].reads[i].offset < run[r].reads[j].offset

\* C6: when a read fails the parse is aborted: the request has ended with exactly
\* one 'error' and no 'complete', the failed read was its last one and no chunk
\* was asked for twice, and from then on it requests and posts nothing.
C6_ReadFailureAborts ==
  /\ [](\A r \in Requests :
          ReadFailed(r) =>
            /\ Done(r)
            /\ Cardinality(TerminalIdx(r)) = 1
            /\ \A i \in PostedBy(r) : msgs[i].msg.type # "complete"
            /\ \A i \in TerminalIdx(r), j \in PostedBy(r) : j <= i
            /\ ReadsAscend(r)
            /\ Len(run[r].reads) = Cardinality(ProgressIdx(r)) + 1)
  /\ [][\A r \in Requests : ReadFailed(r) => Untouched(r)]_vars

\* C6 witness: a read failed after a progress message had reported a workout.
C6_Witness ==
  \E r \in Requests :
    /\ ReadFailed(r)
    /\ \E i \in ProgressIdx(r) : msgs[i].msg.stats.workouts >= 1

\* C7: two sequential running workouts delivered as two chunks, split exactly
\* between the close tag of the first and the start of the second, give exactly
\* two records, one per element.
C7_TwoWorkoutsSplitBetween ==
  \A r \in Requests :
    /\ Parsed(r)
    /\ chunkSize = Len(WorkoutA)
    /\ run[r].file \in {WorkoutA \o WorkoutB, WorkoutA \o WorkoutB \o Filler}
    => /\ TerminalOf(r).type = "complete"
       /\ Len(TerminalOf(r).data) = 2
       /\ TerminalOf(r).data[1].startDate = toISOString(1)
       /\ TerminalOf(r).data[2].startDate = toISOString(2)

\* The collected sample h lies in the window of the output workout w.
InWindow(h, w) ==
  h.ts # NaN /\ w.startDate.iso <= h.ts /\ h.ts <= w.endDate.iso

\* C8: in detailed mode the heart-rate samples attached to a workout are exactly
\* the collected samples inside its window, bounds included, each as often as it
\* was collected, in ascending order of timestamp.
C8_SamplesInWindow ==
  \A r \in Requests :
    Completed(r) /\ run[r].mode = "detailed" =>
      \A i \in 1..Len(TerminalOf(r).data) :
        LET w == TerminalOf(r).data[i] IN
        /\ \A k \in 1..(Len(w.hrSamples) - 1) : w.hrSamples[k].ts <= w.hrSamples[k + 1].ts
        /\ \A k \in 1..Len(w.hrSamples) :
             Count(w.hrSamples, w.hrSamples[k])
               = Count(hrRecords, w.hrSamples[k]) /\ InWindow(w.hrSamples[k], w)
        /\ \A k \in 1..Len(hrRecords) :
             InWindow(hrRecords[k], w) =>
               Count(w.hrSamples, hrRecords[k]) = Count(hrRecords, hrRecords[k])

\* The step sample rec overlaps the window and has a positive duration.
Overlaps(rec, startTs, endTs) ==
  /\ rec.tsStart # NaN /\ rec.tsEnd # NaN /\ rec.value # NaN
  /\ rec.tsEnd >= startTs /\ rec.tsStart <= endTs
  /\ rec.tsEnd - rec.tsStart > 0

RECURSIVE OverlapSum(_, _, _, _)
\* The sum of the apportioned counts of the first n step samples that overlap.
OverlapSum(st, n, startTs, endTs) ==
  IF n = 0 THEN 0
  ELSE OverlapSum(st, n - 1, startTs, endTs)
         + (IF Overlaps(st[n], startTs, endTs)
            THEN Apportion(st[n], startTs, endTs).n ELSE 0)

\* C9: in detailed mode the step total of a workout is the sum over every
\* collected step sample that overlaps its window of value * (overlap / duration)
\* and its cadence is derived from that sum: no overlapping sample is left out.
C9_StepTotalCoversOverlaps ==
  \A r \in Requests :
    Completed(r) /\ run[r].mode = "detailed" =>
      \A i \in 1..Len(TerminalOf(r).data) :
        LET w     == TerminalOf(r).data[i]
            total == OverlapSum(stepRecords, Len(stepRecords), w.startDate.iso, w.endDate.iso)
        IN /\ TotalSteps(stepRecords, w.startDate.iso, w.endDate.iso).n = total
           /\ w.cadence = IF total > 0 /\ JsGt(w.duration, 0)
                          THEN Cadence([nan |-> FALSE, n |-> total], w.duration)
                          ELSE Null

\* C10: in fast mode heart-rate and step records are never collected: the two
\* collections stay empty, every progress message reports 0 for both, and every
\* workout of the result has no heart-rate sample and a null cadence.
C10_FastModeSkipsRecords ==
  \A r \in Requests :
    run[r].mode = "fast" =>
      /\ hrRecords = <<>>
      /\ stepRecords = <<>>
      /\ \A i \in ProgressIdx(r) :
           msgs[i].msg.stats.hrRecords = 0 /\ msgs[i].msg.stats.stepRecords = 0
      /\ Completed(r) =>
           \A i \in 1..Len(TerminalOf(r).data) :
             TerminalOf(r).data[i].hrSamples = <<>> /\ TerminalOf(r).data[i].cadence = Null

\* C10 witness: a fast parse of a file holding a heart-rate record, a step record
\* and a workout with a duration has completed with that workout.
C10_Witness ==
  \E r \in Requests :
    /\ run[r].mode = "fast"
    /\ Completed(r)
    /\ Contains(run[r].file, HeartRateAt3)
    /\ Contains(run[r].file, StepsFrom0To4)
    /\ Len(TerminalOf(r).data) >= 1
    /\ Cardinality(ProgressIdx(r)) >= 2

\* parseFile of request r as its next step starts: after the reset when the
\* request is still queued, after the loop body on the chunk it is waiting for
\* otherwise.
StepOf(r) ==
  IF run[r].pc = "queued"
  THEN [l |-> InitLocals, g |-> ResetGlobals(Globals, run[r].mode)]
  ELSE ChunkStep(Locals(r), Globals, run[r].file, chunkSize)

\* The workouts parseFile has accumulated when the next step of r ends the parse.
Accumulated(r) == AfterLoop(StepOf(r).l, StepOf(r).g).workouts

\* The next step ends request r with 'complete'.
Completes(r) ==
  /\ ~Done(r)
  /\ run'[r].pc = "done"
  /\ msgs'[Len(msgs')].msg.type = "complete"

\* What the extractor pushed for the output workout w: the dates before
\* toISOString.
Extracted(w) ==
  [startDate |-> w.startDate.iso, endDate |-> w.endDate.iso, duration |-> w.duration,
   events |-> [k \in 1..Len(w.events) |->
                 [type |-> w.events[k].type,
                  date |-> IF w.events[k].date = Null THEN Null ELSE w.events[k].date.iso]]]

Pushed(wo) ==
  [startDate |-> wo.startDate, endDate |-> wo.endDate, duration |-> wo.duration,
   events |-> wo.events]

\* C11: the list a 'complete' message carries is in ascending order of start
\* timestamp and holds the workouts the extractor accumulated, each as often as
\* it was pushed, none added and none lost, in both modes.
C11_SortedPermutation ==
  [][\A r \in Requests :
       Completes(r) =>
         LET data == msgs'[Len(msgs')].msg.data
             acc  == Accumulated(r)
         IN /\ Len(data) = Len(acc)
            /\ \A i \in 1..(Len(data) - 1) : data[i].startDate.iso <= data[i + 1].startDate.iso
            /\ \A i \in 1..Len(data) :
                 Cardinality({k \in 1..Len(data) : Extracted(data[k]) = Extracted(data[i])})
                   = Cardinality({k \in 1..Len(acc) : Pushed(acc[k]) = Extracted(data[i])})]_vars

\* C11 witness: a detailed parse completed with two workouts that were extracted
\* in descending order of start and a heart-rate record.
C11_Witness ==
  \E r \in Requests :
    /\ Completed(r)
    /\ run[r].mode = "detailed"
    /\ run[r].file = WorkoutB \o WorkoutA \o HeartRateAt3
    /\ Len(TerminalOf(r).data) = 2
    /\ TerminalOf(r).data[1].startDate = toISOString(1)

\* The reads of request r that have been asked for and have neither resolved
\* (each resolved read is followed by one progress message) nor failed.
Outstanding(r) ==
  Len(run[r].reads) - Cardinality(ProgressIdx(r)) - (IF ReadFailed(r) THEN 1 ELSE 0)

\* C12: one chunk at a time: a request never has two reads outstanding, it has
\* one exactly while it is suspended on a read, every read starts where the one
\* before ended, and the read of chunk k+1 is asked for in the step that scanned
\* chunk k, stored its carry-over and posted its progress message, after them.
C12_OneChunkAtATime ==
  /\ [](\A r \in Requests :
          /\ Outstanding(r) \in {0, 1}
          /\ Outstanding(r) = 1 <=> run[r].pc = "reading"
          /\ \A k \in 1..(Len(run[r].reads) - 1) :
               run[r].reads[k + 1].offset = run[r].reads[k].offset + run[r].reads[k].size)
  /\ [][\A r \in Requests :
          Len(run'[r].reads) > Len(run[r].reads) /\ run[r].pc = "reading" =>
            /\ Len(run'[r].reads) = Len(run[r].reads) + 1
            /\ Cardinality(ProgressIdx(r))' = Cardinality(ProgressIdx(r)) + 1
            /\ msgs'[Len(msgs')].req = r
            /\ msgs'[Len(msgs')].msg.type = "progress"
            /\ msgs'[Len(msgs')].msg.offset = run'[r].offset
            /\ run'[r].offset = run'[r].reads[Len(run'[r].reads)].offset
            /\ [offset |-> run'[r].offset, buffer |-> run'[r].buffer,
                workoutBuf |-> run'[r].workoutBuf] = StepOf(r).l
            /\ inWorkout' = StepOf(r).g.inWorkout]_vars

\* C12 witness: a request is suspended on its third read, a workout was
\* extracted from the chunks before it.
C12_Witness ==
  \E r \in Requests :
    /\ run[r].pc = "reading"
    /\ Len(run[r].reads) >= 3
    /\ Len(workouts) >= 1

\* Math.min(offset / total, 1) of a progress message, as a fraction.
Fraction(m) ==
  IF m.offset >= m.total THEN [num |-> 1, den |-> 1] ELSE [num |-> m.offset, den |-> m.total]

FractionLe(a, b) == a.num * b.den <= b.num * a.den

\* The reads of request r that have resolved.
Resolved(r) ==
  Len(run[r].reads) - (IF run[r].pc = "reading" \/ ReadFailed(r) THEN 1 ELSE 0)

\* C13: a request has posted one progress message per chunk it has read, in
\* scanning and in awaiting-close state alike; every fraction lies in [0, 1],
\* fractions and the three reported counts never decrease from one progress
\* message to the next, and the fraction is 1 after the last chunk.
C13_ProgressPerChunk ==
  \A r \in Requests :
    /\ Cardinality(ProgressIdx(r)) = Resolved(r)
    /\ \A i \in ProgressIdx(r) :
         /\ FractionLe([num |-> 0, den |-> 1], Fraction(msgs[i].msg))
         /\ FractionLe(Fraction(msgs[i].msg), [num |-> 1, den |-> 1])
         /\ Fraction(msgs[i].msg).den > 0
    /\ \A i, j \in ProgressIdx(r) :
         i < j =>
           /\ FractionLe(Fraction(msgs[i].msg), Fraction(msgs[j].msg))
           /\ msgs[i].msg.stats.workouts <= msgs[j].msg.stats.workouts
           /\ msgs[i].msg.stats.hrRecords <= msgs[j].msg.stats.hrRecords
           /\ msgs[i].msg.stats.stepRecords <= msgs[j].msg.stats.stepRecords
    /\ Parsed(r) =>
         \A i \in ProgressIdx(r) :
           (\A j \in ProgressIdx(r) : j <= i) => Fraction(msgs[i].msg) = [num |-> 1, den |-> 1]

\* C13 witness: a detailed parse read in single characters has ended; it posted
\* progress while it was awaiting the close tag of its workout, then reported
\* the workout and a heart-rate record.
C13_Witness ==
  \E r \in Requests :
    /\ Completed(r)
    /\ chunkSize = 1
    /\ run[r].file = WorkoutA \o HeartRateAt3
    /\ run[r].mode = "detailed"
    /\ Cardinality(ProgressIdx(r)) = Len(run[r].file)
    /\ \E i, j \in ProgressIdx(r) :
         /\ msgs[i].msg.stats.workouts = 0 /\ msgs[i].msg.offset = Len(WorkoutA) - 1
         /\ msgs[j].msg.stats.workouts = 1 /\ msgs[j].msg.stats.hrRecords = 1

\* The input of request r ended while the close tag of a workout was awaited:
\* parseFile left its loop in awaiting-close state with a non-empty accumulator.
EndedAwaitingClose(r) == Parsed(r) /\ inWorkout /\ run[r].workoutBuf # <<>>

\* The text has a start date and an end date that both parse.
HasValidDates(xml) ==
  /\ parseHealthDate(attr(xml, "S")) \notin {Null, NaN}
  /\ parseHealthDate(attr(xml, "E")) \notin {Null, NaN}

\* The last progress message of request r.
LastProgress(r) == msgs[CHOOSE i \in ProgressIdx(r) : \A j \in ProgressIdx(r) : j <= i].msg

\* C14: when the input ends in awaiting-close state with a non-empty accumulator
\* the request completes without error, and an accumulator with valid start and
\* end dates gives exactly one more workout than was reported after the last
\* chunk: the truncated one, with the dates and duration the accumulator holds.
C14_TruncatedWorkoutExtracted ==
  \A r \in Requests :
    EndedAwaitingClose(r) =>
      /\ TerminalOf(r).type = "complete"
      /\ HasValidDates(run[r].workoutBuf) =>
           /\ Len(TerminalOf(r).data) = LastProgress(r).stats.workouts + 1
           /\ \E i \in 1..Len(TerminalOf(r).data) :
                /\ TerminalOf(r).data[i].startDate
                     = toISOString(parseHealthDate(attr(run[r].workoutBuf, "S")))
                /\ TerminalOf(r).data[i].endDate
                     = toISOString(parseHealthDate(attr(run[r].workoutBuf, "E")))
                /\ TerminalOf(r).data[i].duration = attrFloat(run[r].workoutBuf, "D")

\* C14 witness: a parse in several chunks of a closed workout followed by one
\* that is cut inside its close tag has completed with both.
C14_Witness ==
  \E r \in Requests :
    /\ EndedAwaitingClose(r)
    /\ HasValidDates(run[r].workoutBuf)
    /\ Len(run[r].reads) >= 2
    /\ Len(run[r].file) = Len(WorkoutB) + Len(WorkoutA) - 2
    /\ Len(TerminalOf(r).data) = 2

\* The statistics distance the claim's fallback uses: the last block with a
\* positive amount, none when there is no such block.
RECURSIVE LastPositive(_)
LastPositive(blocks) ==
  IF blocks = <<>> THEN <<>>
  ELSE IF blocks[Len(blocks)].dist > 0 THEN <<blocks[Len(blocks)]>>
  ELSE LastPositive(SubSeq(blocks, 1, Len(blocks) - 1))

\* The distance that is used and its unit: the workout's own attribute, or the
\* statistics distance when the own one is absent, zero or not a number.
UsedDistance(own, unit, blocks) ==
  IF own \in {Null, NaN, 0} /\ LastPositive(blocks) # <<>>
  THEN [dist |-> LastPositive(blocks)[1].dist, unit |-> LastPositive(blocks)[1].unit]
  ELSE [dist |-> own, unit |-> unit]

\* d of the unit, in miles; a distance without a unit is in miles.
InMiles(d, unit) ==
  IF unit \in {Kilometres, <<"K", "m">>, <<"k", "M">>, <<"K", "M">>} THEN Decimal(d * 621371, 6)
  ELSE IF unit \in {Metres, <<"M">>} THEN Decimal(d * 621371, 9)
  ELSE Decimal(d, 0)

\* C15: the totalDistance of a workout of the result is the distance that was
\* used (the own attribute, or the statistics distance when the own one is
\* absent, zero or not a number), in miles: times 0.621371 for km, times
\* 0.000621371 for m, in any case of the letters, converted once.
C15_DistanceInMiles ==
  \A r \in Requests :
    Completed(r) =>
      \A own \in OwnDistances, unit \in UnitTexts, blocks \in StatisticsChoices :
        /\ run[r].file = DistanceWorkout(own, unit, blocks)
        /\ UsedDistance(own, unit, blocks).dist \notin {Null, NaN}
        => /\ Len(TerminalOf(r).data) >= 1
           /\ \A i \in 1..Len(TerminalOf(r).data) :
                TerminalOf(r).data[i].totalDistance
                  = InMiles(UsedDistance(own, unit, blocks).dist,
                            UsedDistance(own, unit, blocks).unit)

\* C15 witness: a workout without a distance of its own whose statistics give
\* 5 KM after 2 mi, read in several chunks, has the distance 3.106855.
C15_Witness ==
  \E r \in Requests :
    /\ Completed(r)
    /\ chunkSize = DistanceChunk
    /\ run[r].file = DistanceWorkout(Null, Metres,
                       <<Block("A", 2, Miles, FALSE), Block("V", 5, <<"K", "M">>, TRUE)>>)
    /\ TerminalOf(r).data[1].totalDistance = Decimal(3106855, 6)

\* The positions of a scan ascend strictly, and a position where the nearest
\* marker has no '<' of its own at or after it is followed by the position
\* right after the start of that marker.
ScanAdvances(scan, mode) ==
  /\ \A k \in 1..(Len(scan.pos) - 1) : scan.pos[k] < scan.pos[k + 1]
  /\ \A k \in 1..Len(scan.pos) :
       scan.pos[k] < Len(scan.text) /\ Candidates(scan.text, scan.pos[k], mode) # {} =>
         LET a == Nearest(Candidates(scan.text, scan.pos[k], mode)).idx
         IN LastIndexOf(scan.text, <<"<">>, a) < scan.pos[k] =>
              k < Len(scan.pos) /\ scan.pos[k + 1] = a + 1

\* A marker was passed over at some position of the scan.
ScanSkips(scan, mode) ==
  \E k \in 1..Len(scan.pos) :
    /\ scan.pos[k] < Len(scan.text)
    /\ Candidates(scan.text, scan.pos[k], mode) # {}
    /\ LastIndexOf(scan.text, <<"<">>,
                   Nearest(Candidates(scan.text, scan.pos[k], mode)).idx) < scan.pos[k]

\* The scans of the next step of request r: of the loop body, and of the final
\* pass when the step leaves the loop.
NextScans(r) ==
  {StepOf(r).g.scan} \cup
    (IF StepOf(r).l.offset < Len(run[r].file) THEN {}
     ELSE {AfterLoop(StepOf(r).l, StepOf(r).g).scan})

\* C16: every call of processBuffer, in both modes, ends after finitely many
\* tests of its loop, the scan position grows strictly from one test to the
\* next, and a marker whose '<' is absent or lies before the scan position moves
\* the position to just after the start of the match.
C16_ScanTerminates ==
  \A r \in Requests :
    ~Done(r) => \A scan \in NextScans(r) : ScanAdvances(scan, run[r].mode)

\* C16 witness: a request is about to scan, in detailed mode, a buffer in which
\* a marker is passed over after an element has been extracted.
C16_Witness ==
  \E r \in Requests :
    /\ run[r].pc = "reading"
    /\ run[r].mode = "detailed"
    /\ \E scan \in NextScans(r) :
         /\ ScanSkips(scan, run[r].mode)
         /\ Len(scan.pos) >= 3

\* The accumulator of request r with the chunk it is waiting for appended.
Accumulator(r) == run[r].workoutBuf \o ChunkAt(run[r].file, run[r].offset, chunkSize)

\* The read request r waits for resolves in awaiting-close state.
LoadsAwaiting(r) ==
  /\ run[r].pc = "reading"
  /\ inWorkout
  /\ \E i \in (Len(msgs) + 1)..Len(msgs') :
       msgs'[i].req = r /\ msgs'[i].msg.type = "progress"

\* The last progress message among the messages of the step.
StepProgress ==
  msgs'[CHOOSE i \in (Len(msgs) + 1)..Len(msgs') :
          /\ msgs'[i].msg.type = "progress"
          /\ \A j \in (i + 1)..Len(msgs') : msgs'[j].msg.type # "progress"].msg

\* C17: a chunk arrives in awaiting-close state and brings the close tag: the
\* text from the start of the accumulator through the first close tag is handed
\* to the extractor (one workout more when its dates are valid, with its start
\* and end), the rest is scanned in the same step from scanning state: what the
\* step reports and leaves behind is what that scan finds in the rest, so a
\* whole element lying in the rest is collected by this step.
C17_CloseFoundResumesScan ==
  [][\A r \in Requests :
       LoadsAwaiting(r) /\ IndexOf(Accumulator(r), CloseWorkout, 0) # -1 =>
         LET end      == IndexOf(Accumulator(r), CloseWorkout, 0) + Len(CloseWorkout)
             fragment == Substring(Accumulator(r), 0, end)
             rest     == SubstringFrom(Accumulator(r), end)
             g1       == [processWorkoutBlock(fragment, Globals) EXCEPT !.inWorkout = FALSE]
             res      == processBuffer(rest, g1)
         IN /\ HasValidDates(fragment) =>
                 /\ Len(g1.workouts) = Len(workouts) + 1
                 /\ g1.workouts[Len(workouts) + 1].startDate = parseHealthDate(attr(fragment, "S"))
                 /\ g1.workouts[Len(workouts) + 1].endDate = parseHealthDate(attr(fragment, "E"))
            /\ StepProgress.stats = [workouts    |-> Len(res.g.workouts),
                                     hrRecords   |-> Len(res.g.hrRecords),
                                     stepRecords |-> Len(res.g.stepRecords)]
            /\ Contains(rest, WorkoutB) /\ HasValidDates(fragment) => StepProgress.stats.workouts >= Len(workouts) + 2
            /\ Contains(rest, HeartRateAt3) /\ run[r].mode = "detailed" =>
                 StepProgress.stats.hrRecords >= Len(hrRecords) + 1
            /\ run'[r].pc = "reading" =>
                 /\ inWorkout' = res.g.inWorkout
                 /\ workouts' = res.g.workouts
                 /\ run'[r].buffer = (IF res.g.inWorkout THEN <<>> ELSE res.ret)
                 /\ run'[r].workoutBuf = (IF res.g.inWorkout THEN res.ret ELSE <<>>)]_vars

\* C17 witness: the second chunk of a detailed parse has brought the close tag of
\* the workout the first chunk opened and, after it, a whole heart-rate record
\* and the '<' of the next workout.
C17_Witness ==
  \E r \in Requests :
    /\ run[r].pc = "reading"
    /\ run[r].mode = "detailed"
    /\ run[r].file = WorkoutA \o HeartRateAt3 \o WorkoutB
    /\ chunkSize = Len(StepsFrom0To4)
    /\ run[r].offset = 2 * chunkSize
    /\ Len(workouts) = 1
    /\ Len(hrRecords) = 1
    /\ ~inWorkout

\* C18: a chunk arrives in awaiting-close state and does not bring the close
\* tag: the step appends the chunk to the accumulator and posts one progress
\* message with the counts as they were, and nothing else: the state stays
\* awaiting-close, the pending buffer was and stays empty, and workouts,
\* hrRecords and stepRecords are left as they are.
C18_NoCloseOnlyAccumulates ==
  [][\A r \in Requests :
       LoadsAwaiting(r) /\ IndexOf(Accumulator(r), CloseWorkout, 0) = -1 =>
         /\ run[r].buffer = <<>>
         /\ msgs'[Len(msgs) + 1].msg.type = "progress"
         /\ msgs'[Len(msgs) + 1].msg.stats = [workouts    |-> Len(workouts),
                                              hrRecords   |-> Len(hrRecords),
                                              stepRecords |-> Len(stepRecords)]
         /\ run'[r].workoutBuf = Accumulator(r)
         /\ run'[r].buffer = <<>>
         /\ inWorkout'
         /\ run'[r].pc = "reading" =>
              /\ Len(msgs') = Len(msgs) + 1
              /\ UNCHANGED <<workouts, hrRecords, stepRecords, parseMode, diagnosticSent>>]_vars

\* C18 witness: a parse in single characters is awaiting the close tag of a
\* workout and has appended several chunks to the accumulator.
C18_Witness ==
  \E r \in Requests :
    /\ run[r].pc = "reading"
    /\ inWorkout
    /\ chunkSize = 1
    /\ run[r].mode = "detailed"
    /\ run[r].file = HeartRateAt3 \o WorkoutA
    /\ Len(run[r].workoutBuf) = Len(WorkoutA) - 2
    /\ Len(hrRecords) = 1

\* At the k-th loop test of the scan the nearest marker is of the given type and
\* the '<' before it is not before the scan position.
NearestIs(scan, mode, k, types) ==
  /\ scan.pos[k] < Len(scan.text)
  /\ Candidates(scan.text, scan.pos[k], mode) # {}
  /\ Nearest(Candidates(scan.text, scan.pos[k], mode)).type \in types
  /\ LastIndexOf(scan.text, <<"<">>, Nearest(Candidates(scan.text, scan.pos[k], mode)).idx)
       >= scan.pos[k]

MarkerAt(scan, mode, k) == Nearest(Candidates(scan.text, scan.pos[k], mode)).idx

ElementAt(scan, mode, k) == LastIndexOf(scan.text, <<"<">>, MarkerAt(scan, mode, k))

\* The workouts after the extractor has been handed the fragment, given the
\* workouts before.
WithFragment(before, fragment) ==
  processWorkoutBlock(fragment, [Globals EXCEPT !.workouts = before]).workouts

\* The request is about to scan its pending buffer with the chunk it waits for.
ScansNext(r) == run[r].pc = "reading" /\ ~inWorkout

\* C19: in scanning state, at a running-workout marker: when a close tag
\* follows in the buffer, the text from the element's '<' through the close tag
\* is handed to the extractor and the scan resumes right after the tag; when
\* none follows, the scan ends there, the driver is in awaiting-close state, the
\* accumulator is the buffer from the element's '<' to its end and the pending
\* buffer is empty.
C19_WorkoutMarkerInBuffer ==
  \A r \in Requests :
    ScansNext(r) =>
      LET scan == StepOf(r).g.scan IN
      \A k \in 1..Len(scan.pos) :
        NearestIs(scan, run[r].mode, k, {"workout"}) =>
          LET elemStart == ElementAt(scan, run[r].mode, k)
              endIdx    == IndexOf(scan.text, CloseWorkout, MarkerAt(scan, run[r].mode, k))
          IN IF endIdx # -1
             THEN /\ k < Len(scan.pos)
                  /\ scan.pos[k + 1] = endIdx + Len(CloseWorkout)
                  /\ scan.workouts[k + 1]
                       = WithFragment(scan.workouts[k],
                                      Substring(scan.text, elemStart, endIdx + Len(CloseWorkout)))
             ELSE /\ k = Len(scan.pos)
                  /\ StepOf(r).g.inWorkout
                  /\ StepOf(r).g.workouts = scan.workouts[k]
                  /\ StepOf(r).l.workoutBuf = SubstringFrom(scan.text, elemStart)
                  /\ StepOf(r).l.buffer = <<>>

\* C19 witness: the first chunk held a whole workout and the start of the next
\* one: the first was extracted, the driver awaits the close tag of the second.
C19_Witness ==
  \E r \in Requests :
    /\ run[r].pc = "reading"
    /\ run[r].file = WorkoutB \o WorkoutA
    /\ chunkSize = Len(WorkoutA)
    /\ Len(run[r].reads) = 2
    /\ Len(workouts) = 1
    /\ inWorkout
    /\ run[r].workoutBuf = SubSeq(WorkoutA, 1, Len(WorkoutA) - Len(WorkoutB))
    /\ run[r].buffer = <<>>

\* hrRecords holds the sample of HeartRateAt3, stepRecords that of a step piece.
HasHeartRateAt3 == \E i \in 1..Len(hrRecords) : hrRecords[i] = [ts |-> 3, value |-> 7]

HasSteps(tsEnd, value) ==
  \E i \in 1..Len(stepRecords) :
    stepRecords[i] = [tsStart |-> 0, tsEnd |-> tsEnd, value |-> value]

\* C20: in detailed mode, at a heart-rate or step marker that neither '/>' nor
\* '</Record>' follows in the buffer: the scan ends there without a record of
\* that element, the driver stays in scanning state, and the pending buffer
\* becomes the text from the record's '<' to the end of the buffer; a record
\* whose terminator comes with a later chunk is collected by the end of the
\* parse.
C20_OpenRecordCarriedOver ==
  \A r \in Requests :
    run[r].mode = "detailed" =>
      /\ ScansNext(r) =>
           LET scan == StepOf(r).g.scan IN
           \A k \in 1..Len(scan.pos) :
             /\ NearestIs(scan, "detailed", k, {"hr", "step"})
             /\ IndexOf(scan.text, SelfClose, MarkerAt(scan, "detailed", k)) = -1
             /\ IndexOf(scan.text, CloseRecord, MarkerAt(scan, "detailed", k)) = -1
             => /\ k = Len(scan.pos)
                /\ StepOf(r).g.hrRecords = scan.hrRecords[k]
                /\ StepOf(r).g.stepRecords = scan.stepRecords[k]
                /\ StepOf(r).g.workouts = scan.workouts[k]
                /\ ~StepOf(r).g.inWorkout
                /\ StepOf(r).l.buffer
                     = SubstringFrom(scan.text, ElementAt(scan, "detailed", k))
                /\ StepOf(r).l.workoutBuf = <<>>
      /\ Parsed(r) =>
           /\ Contains(run[r].file, HeartRateAt3) => HasHeartRateAt3
           /\ Contains(run[r].file, StepsFrom0To4) => HasSteps(4, 6)
           /\ Contains(run[r].file, StepsFrom0To1) => HasSteps(1, 2)

\* C20 witness: a detailed parse in single characters has ended and holds the
\* heart-rate record and the step record of its file, each of which was carried
\* over chunk after chunk until its '/>' had arrived.
C20_Witness ==
  \E r \in Requests :
    /\ Completed(r)
    /\ run[r].mode = "detailed"
    /\ chunkSize = 1
    /\ run[r].file = WorkoutB \o HeartRateAt3 \o StepsFrom0To4
    /\ HasHeartRateAt3
    /\ HasSteps(4, 6)

\* The last min(n, length) characters of the text.
LastChars(text, n) == SubSeq(text, Len(text) - Min(n, Len(text)) + 1, Len(text))

\* C21: when a scan of the loop body finds no marker from its position on, it
\* ends there and the pending buffer becomes the last min(TailLen, length)
\* characters of the scanned text (TailLen stands for the 300 of the source), so
\* that it is never longer than TailLen; the driver stays in scanning state.
C21_TailCarriedOver ==
  \A r \in Requests :
    ScansNext(r) =>
      LET scan == StepOf(r).g.scan IN
      \A k \in 1..Len(scan.pos) :
        scan.pos[k] < Len(scan.text) /\ Candidates(scan.text, scan.pos[k], run[r].mode) = {} =>
          /\ k = Len(scan.pos)
          /\ StepOf(r).l.buffer = LastChars(scan.text, TailLen)
          /\ Len(StepOf(r).l.buffer) <= TailLen
          /\ StepOf(r).l.workoutBuf = <<>>
          /\ ~StepOf(r).g.inWorkout

\* C21 witness: the first chunk of a fast parse held no running-workout marker
\* and was longer than the tail: its last TailLen characters are pending.
C21_Witness ==
  \E r \in Requests :
    /\ run[r].pc = "reading"
    /\ run[r].mode = "fast"
    /\ run[r].file = HeartRateAt3 \o StepsFrom0To4 \o WorkoutB
    /\ chunkSize = Len(WorkoutA)
    /\ Len(run[r].reads) = 2
    /\ chunkSize > TailLen
    /\ run[r].buffer = SubSeq(run[r].file, chunkSize - TailLen + 1, chunkSize)

\* C22: a heart-rate or step record whose date attribute is present but does
\* not parse is dropped: hrRecords holds no sample without a timestamp,
\* stepRecords no sample without a start or an end, and no workout of a result
\* carries such a sample.
C22_UnparseableRecordDropped ==
  /\ \A i \in 1..Len(hrRecords) : hrRecords[i].ts \notin {NaN, Null}
  /\ \A i \in 1..Len(stepRecords) :
       stepRecords[i].tsStart \notin {NaN, Null} /\ stepRecords[i].tsEnd \notin {NaN, Null}
  /\ \A r \in Requests :
       Completed(r) =>
         \A i \in 1..Len(TerminalOf(r).data) :
           \A k \in 1..Len(TerminalOf(r).data[i].hrSamples) :
             TerminalOf(r).data[i].hrSamples[k].ts # NaN

\* C23: attrFloat gives null for text that is not a number, as it does for a
\* missing attribute, so that a record with a non-numeric value is not kept:
\* hrRecords and stepRecords hold no sample whose value is not a number.
C23_NonNumericValueIsAbsent ==
  /\ \A i \in 1..Len(hrRecords) : hrRecords[i].value # NaN
  /\ \A i \in 1..Len(stepRecords) : stepRecords[i].value # NaN

\* The number an attribute of the file's heart-rate statistics block holds, null
\* when the block has no such attribute.
Supplied(r, name) == attrFloat(run[r].file, name)

\* C24: a heart-rate average, maximum or minimum that the XML supplied is in
\* the result as supplied; one the XML did not supply is derived from the
\* attached samples when there are any, and is absent otherwise.
C24_XmlHeartRateStatisticsKept ==
  \A r \in Requests :
    Completed(r) =>
      \A i \in 1..Len(TerminalOf(r).data) :
        LET wo == TerminalOf(r).data[i]
        IN /\ wo.statistics.avgHR =
                IF Supplied(r, "a") # Null THEN Ratio(Supplied(r, "a"), 1)
                ELSE IF wo.hrSamples # <<>> THEN Ratio(SumOf(wo.hrSamples), Len(wo.hrSamples))
                ELSE Ratio(Null, 1)
           /\ wo.statistics.maxHR =
                IF Supplied(r, "X") # Null THEN Supplied(r, "X")
                ELSE IF wo.hrSamples # <<>> THEN MaxOf(wo.hrSamples)
                ELSE Null
           /\ wo.statistics.minHR =
                IF Supplied(r, "n") # Null THEN Supplied(r, "n")
                ELSE IF wo.hrSamples # <<>> THEN MinOf(wo.hrSamples)
                ELSE Null

\* arr is sorted ascending by key.
SortedBy(arr, key) == \A i \in 1..Len(arr), j \in 1..Len(arr) : i < j => arr[i][key] <= arr[j][key]

\* The number of elements of arr whose key is strictly less than target.
Below(arr, key, target) == Cardinality({i \in 1..Len(arr) : arr[i][key] < target})

\* What is said of the index k that a search of arr for target returns: it is
\* max(0, n - 1) for the n elements below the target, the elements before it
\* are below the target, and no element at the target is before it.
SearchedFrom(arr, key, target, k) ==
  /\ k = Max(0, Below(arr, key, target) - 1)
  /\ \A i \in 1..k : arr[i][key] < target
  /\ \A i \in 1..Len(arr) : arr[i][key] = target => i - 1 >= k

\* The heart-rate records of the window of workout wo, in the order of hr.
WindowOf(hr, wo) ==
  SelectSeq(hr, LAMBDA x : wo.startDate <= x.ts /\ x.ts <= wo.endDate)

\* C25: on the sorted arrays of a completed detailed parse, the search for the
\* start of each workout ends and returns max(0, n - 1), n the number of
\* elements whose key is below the start; every element before the returned
\* index is below the start; no element at the start is before it, so the
\* forward scan attaches every sample of the window, one at the start included.
C25_SearchReturnsLastBelow ==
  \A r \in Requests :
    Completed(r) /\ parseMode = "detailed" /\ (hrRecords # <<>> \/ stepRecords # <<>>) =>
      /\ SortedBy(hrRecords, "ts")
      /\ SortedBy(stepRecords, "tsStart")
      /\ \A i \in 1..Len(workouts) :
           /\ SearchedFrom(hrRecords, "ts", workouts[i].startDate,
                           bsearch(hrRecords, workouts[i].startDate, "ts"))
           /\ SearchedFrom(stepRecords, "tsStart", workouts[i].startDate,
                           bsearch(stepRecords, workouts[i].startDate, "tsStart"))
           /\ [k \in 1..Len(workouts[i].hrSamples) |->
                 [ts |-> workouts[i].hrSamples[k].ts,
                  value |-> workouts[i].hrSamples[k].value]]
                = WindowOf(hrRecords, workouts[i])

\* C25 witness: three records, two at 2 and one at 3 in some order, are sorted
\* and searched for a workout that starts at 3; the search returns the index
\* of the last record at 2 and the sample at 3 is attached.
C25_Witness ==
  \E r \in Requests :
    /\ Completed(r)
    /\ parseMode = "detailed"
    /\ Len(workouts) = 1
    /\ workouts[1].startDate = 3
    /\ Len(hrRecords) = 3
    /\ Below(hrRecords, "ts", 3) = 2
    /\ bsearch(hrRecords, 3, "ts") = 1
    /\ Len(workouts[1].hrSamples) = 1
    /\ workouts[1].hrSamples[1].ts = 3

RECURSIVE OccurrencesFrom(_, _, _)
\* How often the element `piece` occurs in the file from offset `from` on.
OccurrencesFrom(file, piece, from) ==
  IF IndexOf(file, piece, from) = -1 THEN 0
  ELSE 1 + OccurrencesFrom(file, piece, IndexOf(file, piece, from) + Len(piece))

Occurrences(file, piece) == OccurrencesFrom(file, piece, 0)

\* C26: over a whole parse, whatever the chunking, the extractor has pushed no
\* more workouts with the dates of an element than the input holds such
\* elements, and in detailed mode no more heart-rate and step records than the
\* input holds; so no element was handed to it twice.
C26_ExtractedAtMostOnce ==
  \A r \in Requests :
    /\ Cardinality({i \in 1..Len(workouts) : workouts[i].startDate = 1})
         <= Occurrences(run[r].file, WorkoutA)
    /\ Cardinality({i \in 1..Len(workouts) : workouts[i].startDate = 2})
         <= Occurrences(run[r].file, WorkoutB)
    /\ Len(hrRecords) <= Occurrences(run[r].file, HeartRateAt3)
    /\ Len(stepRecords)
         <= Occurrences(run[r].file, StepsFrom0To4) + Occurrences(run[r].file, StepsFrom0To1)

\* The fragments the next step of request r hands to the workout extractor: in
\* the loop body and, when the step leaves the loop, in the final passes.
NextBlocks(r) ==
  IF StepOf(r).l.offset < Len(run[r].file) THEN StepOf(r).g.blocks
  ELSE AfterLoop(StepOf(r).l, StepOf(r).g).blocks

\* The fragment is one running-workout element: it starts at the '<' of a
\* running workout and holds no second one.
OneWorkout(fragment) ==
  /\ MatchAt(fragment, <<"<">> \o RunningMarker, 0)
  /\ Occurrences(fragment, RunningMarker) = 1

\* C27: every fragment the driver hands to the workout extractor holds exactly
\* one running-workout element; none spans from the start tag of one workout to
\* the close tag of a later one, whether the first workout is closed,
\* self-closing or without a close tag.
C27_FragmentIsOneWorkout ==
  \A r \in Requests :
    ~Done(r) =>
      \A k \in 1..Len(NextBlocks(r)) : OneWorkout(NextBlocks(r)[k])

\* Request r has requested a chunk and waits for it.
AwaitsChunk(r) == run[r].pc = "reading"

\* The text starts at the '<' of a running workout: at a '<' that is the last
\* one before a running marker.
StartsAtWorkout(text) ==
  /\ IndexOf(text, RunningMarker, 0) # -1
  /\ LastIndexOf(text, <<"<">>, IndexOf(text, RunningMarker, 0)) = 0

\* C28 as stated: whenever parseFile has requested the next chunk, the pending
\* buffer and the accumulator are not both non-empty: in awaiting-close state
\* the pending buffer is empty and the accumulator starts at the '<' of a
\* workout and holds no close tag; in scanning state the accumulator is empty.
C28_AsStated ==
  \A r \in Requests :
    AwaitsChunk(r) =>
      /\ run[r].buffer = <<>> \/ run[r].workoutBuf = <<>>
      /\ inWorkout =>
           /\ run[r].buffer = <<>>
           /\ StartsAtWorkout(run[r].workoutBuf)
           /\ IndexOf(run[r].workoutBuf, CloseWorkout, 0) = -1
      /\ ~inWorkout => run[r].workoutBuf = <<>>

\* C28, corrected: whenever parseFile has requested the next chunk, the pending
\* buffer and the accumulator are not both non-empty: in awaiting-close state
\* the pending buffer is empty and the accumulator starts at the last '<'
\* before a running marker and holds no close tag from that marker on; in
\* scanning state the accumulator is empty.
C28_BufferOrAccumulator ==
  \A r \in Requests :
    AwaitsChunk(r) =>
      /\ run[r].buffer = <<>> \/ run[r].workoutBuf = <<>>
      /\ inWorkout =>
           /\ run[r].buffer = <<>>
           /\ StartsAtWorkout(run[r].workoutBuf)
           /\ IndexOf(run[r].workoutBuf, CloseWorkout,
                      IndexOf(run[r].workoutBuf, RunningMarker, 0)) = -1
      /\ ~inWorkout => run[r].workoutBuf = <<>>

\* C28 witness: a chunk is requested in awaiting-close state with an
\* accumulator that has grown over several chunks and ends inside a close tag.
C28_Witness ==
  \E r \in Requests :
    /\ AwaitsChunk(r)
    /\ inWorkout
    /\ Len(run[r].workoutBuf) > chunkSize
    /\ run[r].workoutBuf[Len(run[r].workoutBuf)] = "W"

\* C29: a parse that starts after the earlier parse on the same worker has
\* posted its terminal message ends, when its reads succeed, with a terminal
\* message that the same request has on a fresh worker, whatever the mode and
\* the end of the earlier parse: none of its workouts, samples, mode or
\* awaiting-close state is left.
C29_NoLeakFromEarlierParse ==
  \A r \in Requests :
    Parsed(r) => TerminalOf(r) \in RunAlone(run[r].file, run[r].mode, chunkSize)

\* C29 witness: a detailed parse has failed on a read while it awaited a close
\* tag, after collecting a sample; the fast parse sent afterwards has completed
\* with a workout.
C29_Witness ==
  /\ Len(run) = 2
  /\ ReadFailed(1)
  /\ run[1].mode = "detailed"
  /\ run[1].workoutBuf # <<>>
  /\ Len(run[1].reads) >= 2
  /\ run[2].mode = "fast"
  /\ Completed(2)
  /\ Len(TerminalOf(2).data) >= 1

\* The least number of chunks of size cs that hold size characters.
Ceiling(size, cs) == (size + cs - 1) \div cs

\* The reads request r has made so far are the first chunks of its file, in
\* order: the i-th at offset (i - 1) * chunkSize, of the size that is left
\* there, at most chunkSize.
ReadsInOrder(r) ==
  /\ Len(run[r].reads) <= Ceiling(Len(run[r].file), chunkSize)
  /\ \A i \in 1..Len(run[r].reads) :
       /\ run[r].reads[i].offset = (i - 1) * chunkSize
       /\ run[r].reads[i].size = Min(chunkSize, Len(run[r].file) - run[r].reads[i].offset)

\* The reads that hold the character at offset b of the file.
ReadsOf(r, b) ==
  {i \in 1..Len(run[r].reads) :
     run[r].reads[i].offset <= b /\ b < run[r].reads[i].offset + run[r].reads[i].size}

\* A request that has ended without a failed read has read all the chunks of
\* its file, and with them every character once.
ReadsWhole(r) ==
  Parsed(r) =>
    /\ Len(run[r].reads) = Ceiling(Len(run[r].file), chunkSize)
    /\ \A b \in 0..(Len(run[r].file) - 1) : Cardinality(ReadsOf(r, b)) = 1

\* A request for an empty file reads nothing and posts one message,
\* 'complete' with an empty list.
EmptyFile(r) ==
  Len(run[r].file) = 0 =>
    /\ run[r].reads = <<>>
    /\ Done(r) =>
         /\ Cardinality(PostedBy(r)) = 1
         /\ TerminalOf(r) = [type |-> "complete", data |-> <<>>]

\* A step of request r ends it or requests one more chunk.
ReadsOrEnds(r) ==
  run'[r] # run[r] =>
    \/ run'[r].pc = "done" /\ run'[r].reads = run[r].reads
    \/ run'[r].pc = "reading" /\ Len(run'[r].reads) = Len(run[r].reads) + 1

\* C30: for a file of size S the driver requests ceil(S / CHUNK_SIZE) chunks,
\* at the offsets 0, CHUNK_SIZE, 2 * CHUNK_SIZE, ... in this order, each of
\* min(CHUNK_SIZE, S - offset) characters, so that every character is read
\* once; every step of the driver ends the parse or requests one more of these
\* chunks, so the read loop ends; for S = 0 nothing is read, no progress is
\* posted and the request completes with an empty list.
C30_ChunksCoverFile ==
  /\ [](\A r \in Requests : ReadsInOrder(r) /\ ReadsWhole(r) /\ EmptyFile(r))
  /\ [][\A r \in Requests : ReadsOrEnds(r)]_vars

\* C30 witness: a file whose size is no multiple of the chunk size has been
\* read to its end in at least three chunks, the last one shorter.
C30_Witness ==
  \E r \in Requests :
    /\ Completed(r)
    /\ Len(run[r].reads) >= 3
    /\ Len(run[r].reads) = Ceiling(Len(run[r].file), chunkSize)
    /\ run[r].reads[Len(run[r].reads)].size < chunkSize

====
